---- MODULE Spec2Model ----
(***************************************************************************)
(* Verification model of the leela-chess network evaluator                 *)
(* (lc0/src/neural/network_old.cpp) and search declarations                *)
(* (src/UCTSearch.h).                                                      *)
(*                                                                         *)
(* Arrays keep the source's 0-based indexing: a std::vector of n floats is *)
(* a function with domain 0..n-1.                                          *)
(***************************************************************************)
EXTENDS Integers, Sequences, FiniteSets, TLC

VARIABLES
    \* ---- Winograd engine ------------------------------------------------
    wpc,        \* position of the convolution test driver
    outputs,    \* K, number of filters
    channels,   \* C, number of input channels
    f,          \* filter tensor [K,C,3,3], flat
    input,      \* input tensor [C,8,8], flat
    U,          \* transformed filter [4,4,C,K], flat, in units of 1/4
    Upad,       \* zero padded U
    pad,        \* <<outputs_pad, channels_pad>> used for Upad
    V,          \* scratch buffer: transformed input [4,4,C,P]
    M,          \* scratch buffer: GEMM results [4,4,K,P], in units of 1/4
    Y           \* convolution output [K,8,8], flat, in units of 1/4

winoVars == <<wpc, outputs, channels, f, input, U, Upad, pad, V, M, Y>>

VARIABLES
    \* ---- weight loader and NetworkOld::initialize --------------------------
    npc,               \* position inside initialize / load_network
    file,              \* the weight stream, a sequence of lines
    initialized,       \* NetworkOld::initialized
    m_format_version,  \* NetworkOld::m_format_version (size_t)
    net,               \* the static weight arrays, one field per array
    ld,                \* locals of load_network
    ret,               \* value returned by load_network, <<>> before
    ub                 \* arrays and vectors accessed out of bounds so far

netVars == <<npc, file, initialized, m_format_version, net, ld, ret, ub>>

VARIABLES
    \* ---- evaluator: get_scored_moves and the self-check -------------------
    epc,               \* position inside get_scored_moves
    build,             \* properties of the build the source leaves open
    planes,            \* the input planes, each a mask and a value
    input_data,        \* the dense input buffer
    out,               \* policy_data and value_data
    cpu_out,           \* cpu_policy_data and cpu_value_data
    retry_out,         \* policy_data_retry and value_data_retry
    num_expansions,    \* the static credit counter of compare_net_outputs
    fatal,             \* local of get_scored_moves
    almost_equal,      \* local of get_scored_moves
    entry_expansions   \* num_expansions when get_scored_moves was entered

evalVars == <<epc, build, planes, input_data, out, cpu_out, retry_out,
              num_expansions, fatal, almost_equal, entry_expansions>>

coreVars == <<winoVars, netVars, evalVars>>

VARIABLES
    \* ---- relative_difference and the mismatch test, on one pair ------------
    cpc,        \* position of the comparison driver
    cmp_a,      \* data[idx], in units of 1/10000
    cmp_b,      \* ref[idx], in units of 1/10000
    cmp_err     \* err, a fraction <<numerator, denominator>>

cmpVars == <<cpc, cmp_a, cmp_b, cmp_err>>

VARIABLES
    \* ---- SearchResult ------------------------------------------------------
    rpc,        \* which constructor made the result
    res_arg,    \* the argument given to it
    result      \* the SearchResult: m_valid and m_eval

resVars == <<rpc, res_arg, result>>

VARIABLES
    \* ---- NetworkOld::forward_cpu -------------------------------------------
    fpc,        \* position inside forward_cpu
    tower,      \* conv_weights.size()
    fwd_in,     \* the argument input
    conv_in,    \* buffer conv_in, as the expression that computed it
    conv_out,   \* buffer conv_out
    res,        \* buffer res
    layer,      \* the loop variable i
    heads       \* policy_data and value_data

fwdVars == <<fpc, tower, fwd_in, conv_in, conv_out, res, layer, heads>>

VARIABLES
    \* ---- UCT search: driver, workers and the shared tree -------------------
    running,        \* UCTSearch::m_run
    m_maxplayouts,  \* UCTSearch::m_maxplayouts
    m_playouts,     \* UCTSearch::m_playouts
    m_nodes,        \* UCTSearch::m_nodes
    nworkers,       \* number of workers of this think call
    tpc,            \* position of think
    moves,          \* the game: legal moves of every position
    nstate,         \* per node: UNEXPANDED, EXPANDING, EXPANDED or TERMINAL
    visits,         \* per node
    value_sum,      \* per node, in units of 1/2
    virtual_loss,   \* per node
    spc,            \* per worker: position inside its loop
    stack,          \* per worker: the nodes of the descent, root first
    value,          \* per worker: the value being returned
    evals,          \* calls of the evaluator so far
    expansions,     \* per node: how often it was expanded
    terminal_hits,  \* simulations that ended in a terminal node
    cancelled       \* the driver cleared running before the budget was used

searchVars == <<running, m_maxplayouts, m_playouts, m_nodes, nworkers, tpc,
                moves, nstate, visits, value_sum, virtual_loss, spc, stack,
                value, evals, expansions, terminal_hits, cancelled>>

VARIABLES
    \* ---- compare_net_outputs run by several threads -----------------------
    xpc,        \* per thread: position inside compare_net_outputs
    xreg,       \* per thread: the value of num_expansions it has loaded
    xleft,      \* per thread: mismatching elements of data still ahead
    xfatal      \* per thread: the argument fatal

thrVars == <<xpc, xreg, xleft, xfatal>>

VARIABLES
    \* ---- further calls of NetworkOld::initialize --------------------------
    opc,        \* position of a second thread that calls initialize
    ncalls      \* calls of initialize the first thread has made

callVars == <<opc, ncalls>>

extraVars == <<cmpVars, resVars, fwdVars, searchVars, thrVars, callVars>>

vars == <<coreVars, extraVars>>

\* the parts of the model a specification does not use stay in these states
CmpOff == cpc = "off" /\ cmp_a = 0 /\ cmp_b = 0 /\ cmp_err = << 0, 1 >>

ResOff == rpc = "off" /\ res_arg = 0 /\ result = [m_valid |-> FALSE, m_eval |-> 0]

FwdOff ==
    /\ fpc = "off" /\ tower = 0 /\ layer = 0
    /\ fwd_in = << >> /\ conv_in = << >> /\ conv_out = << >>
    /\ res = << >> /\ heads = << >>

SearchOff ==
    /\ tpc = "off" /\ running = FALSE
    /\ m_maxplayouts = 0 /\ m_playouts = 0 /\ m_nodes = 0 /\ nworkers = 0
    /\ moves = << >> /\ nstate = << >> /\ visits = << >>
    /\ value_sum = << >> /\ virtual_loss = << >>
    /\ spc = << >> /\ stack = << >> /\ value = << >>
    /\ evals = 0 /\ expansions = << >> /\ terminal_hits = 0
    /\ cancelled = FALSE

ThrOff == xpc = << >> /\ xreg = << >> /\ xleft = << >> /\ xfatal = << >>

CallOff == opc = "off" /\ ncalls = 1

ExtrasOff ==
    CmpOff /\ ResOff /\ FwdOff /\ SearchOff /\ ThrOff /\ CallOff

(***************************************************************************)
(* Small helpers                                                           *)
(***************************************************************************)
RECURSIVE SumRange(_, _, _)
\* g[lo] + ... + g[hi - 1], the range halved at each level
SumRange(g, lo, hi) ==
    IF hi <= lo THEN 0
    ELSE IF hi = lo + 1 THEN g[lo]
    ELSE LET mid == (lo + hi) \div 2
         IN SumRange(g, lo, mid) + SumRange(g, mid, hi)

SumTo(g, n) == SumRange(g, 0, n)

EmptyVec == [i \in {} |-> 0]

VecLen(v) == Cardinality(DOMAIN v)

(***************************************************************************)
(* 64-bit unsigned arithmetic (size_t).  A value is four 16-bit limbs,     *)
(* least significant first, so that wrap-around is exact.                  *)
(***************************************************************************)
LimbBase == 65536

U64Of(n) == << n % LimbBase, n \div LimbBase, 0, 0 >>

U64Zero == U64Of(0)

\* a - b modulo 2^64
U64Sub(a, b) ==
    LET d1 == a[1] - b[1]
        w1 == IF d1 < 0 THEN 1 ELSE 0
        d2 == a[2] - b[2] - w1
        w2 == IF d2 < 0 THEN 1 ELSE 0
        d3 == a[3] - b[3] - w2
        w3 == IF d3 < 0 THEN 1 ELSE 0
        d4 == a[4] - b[4] - w3
    IN << d1 % LimbBase, d2 % LimbBase, d3 % LimbBase, d4 % LimbBase >>

\* a + b modulo 2^64
U64Add(a, b) ==
    LET s1 == a[1] + b[1]
        s2 == a[2] + b[2] + (s1 \div LimbBase)
        s3 == a[3] + b[3] + (s2 \div LimbBase)
        s4 == a[4] + b[4] + (s3 \div LimbBase)
    IN << s1 % LimbBase, s2 % LimbBase, s3 % LimbBase, s4 % LimbBase >>

\* a * m modulo 2^64, for a small factor m
U64Mul(a, m) ==
    LET p1 == a[1] * m
        p2 == a[2] * m + (p1 \div LimbBase)
        p3 == a[3] * m + (p2 \div LimbBase)
        p4 == a[4] * m + (p3 \div LimbBase)
    IN << p1 % LimbBase, p2 % LimbBase, p3 % LimbBase, p4 % LimbBase >>

\* a / d for a small divisor d
U64Div(a, d) ==
    LET q4 == a[4] \div d
        r4 == a[4] % d
        q3 == (r4 * LimbBase + a[3]) \div d
        r3 == (r4 * LimbBase + a[3]) % d
        q2 == (r3 * LimbBase + a[2]) \div d
        r2 == (r3 * LimbBase + a[2]) % d
        q1 == (r2 * LimbBase + a[1]) \div d
    IN << q1, q2, q3, q4 >>

\* a % d for a small divisor d
U64Mod(a, d) ==
    LET r4 == a[4] % d
        r3 == (r4 * LimbBase + a[3]) % d
        r2 == (r3 * LimbBase + a[2]) % d
    IN (r2 * LimbBase + a[1]) % d

U64Lt(a, b) ==
    \/ a[4] < b[4]
    \/ a[4] = b[4] /\ a[3] < b[3]
    \/ a[4] = b[4] /\ a[3] = b[3] /\ a[2] < b[2]
    \/ a[4] = b[4] /\ a[3] = b[3] /\ a[2] = b[2] /\ a[1] < b[1]

\* conversion size_t -> int: the low 32 bits, two's complement
U64ToInt(a) ==
    IF a[2] >= LimbBase \div 2
    THEN (a[2] - LimbBase) * LimbBase + a[1]
    ELSE a[2] * LimbBase + a[1]

\* conversion int -> size_t: sign extension
IntToU64(n) == IF n >= 0 THEN U64Of(n) ELSE U64Sub(U64Zero, U64Of(-n))

(***************************************************************************)
(* Text.  A line is a sequence of one-character strings, a stream is a     *)
(* sequence of lines (what successive std::getline calls return).          *)
(***************************************************************************)
DigitChars == << "0", "1", "2", "3", "4", "5", "6", "7", "8", "9" >>

IsDigit(ch) == \E i \in 1..10 : DigitChars[i] = ch

DigitVal(ch) == (CHOOSE i \in 1..10 : DigitChars[i] = ch) - 1

IsSpace(ch) == ch = " "

RECURSIVE SkipSpaces(_, _)
\* first position >= i of line that holds no white space
SkipSpaces(line, i) ==
    IF i <= Len(line) /\ IsSpace(line[i]) THEN SkipSpaces(line, i + 1) ELSE i

RECURSIVE DigitsEnd(_, _)
\* first position >= i of line that holds no digit
DigitsEnd(line, i) ==
    IF i <= Len(line) /\ IsDigit(line[i]) THEN DigitsEnd(line, i + 1) ELSE i

RECURSIVE DigitsValue(_, _, _)
\* value of the digits line[i..e-1]
DigitsValue(line, i, e) ==
    IF e <= i THEN 0
    ELSE 10 * DigitsValue(line, i, e - 1) + DigitVal(line[e - 1])

\* the positions of a line, in order
Positions(line) == [p \in 1..Len(line) |-> p]

\* std::distance over std::istream_iterator<std::string>: the number of
\* positions where operator>> starts a token, a character that is no white
\* space at the start of the line or after white space
CountTokens(line) ==
    LET IsTokenStart(p) ==
           ~IsSpace(line[p]) /\ (p = 1 \/ IsSpace(line[p - 1]))
    IN Len(SelectSeq(Positions(line), IsTokenStart))

\* iss >> m_format_version for a size_t: leading white space, an optional
\* minus sign (the value is then negated modulo 2^64), decimal digits.
\* Without digits the extraction fails and stores 0.
ExtractSizeT(line) ==
    LET j == SkipSpaces(line, 1)
        neg == j <= Len(line) /\ line[j] = "-"
        k == IF neg THEN j + 1 ELSE j
        e == DigitsEnd(line, k)
        n == U64Of(DigitsValue(line, k, e))
    IN IF e = k THEN [fail |-> TRUE, val |-> U64Zero]
       ELSE [fail |-> FALSE, val |-> IF neg THEN U64Sub(U64Zero, n) ELSE n]

\* append x to a 0-based vector
Push(v, x) ==
    [i \in 0..VecLen(v) |-> IF i = VecLen(v) THEN x ELSE v[i]]

\* the float x3::float_ reads at position p: an optional minus sign and
\* digits here
FloatAt(line, p) ==
    LET neg == line[p] = "-"
        k == IF neg THEN p + 1 ELSE p
        x == DigitsValue(line, k, DigitsEnd(line, k))
    IN IF neg THEN -x ELSE x

\* phrase_parse(it, end, *x3::float_, x3::space, weights) and the loader's
\* test ok && it_line == cend.  The iterator reaches the end when the line
\* holds digits, white space and minus signs each followed by a digit; a
\* float starts at a minus sign, and at a digit that follows white space or
\* starts the line.
ParseLine(line) ==
    LET IsFloatStart(p) ==
           \/ line[p] = "-"
           \/ IsDigit(line[p]) /\ (p = 1 \/ IsSpace(line[p - 1]))
        starts == SelectSeq(Positions(line), IsFloatStart)
    IN [ok |-> \A p \in 1..Len(line) :
                  \/ IsDigit(line[p])
                  \/ IsSpace(line[p])
                  \/ line[p] = "-" /\ p < Len(line) /\ IsDigit(line[p + 1]),
        weights |-> [i \in 0..(Len(starts) - 1) |->
                       FloatAt(line, starts[i + 1])]]

(***************************************************************************)
(* Bounds of the Winograd model                                            *)
(***************************************************************************)
MaxK == 2
MaxC == 2
MaxPad == 1
Seeds == {0, 1}
ImpulseSquares == {0, 7, 36, 63}

(***************************************************************************)
(* Winograd engine.  G holds halves, so the model keeps every filter-side  *)
(* quantity in fixed point: G2 = 2*G, and U, M, Y are held in units of 1/4 *)
(* (Scale).  All arithmetic is exact.                                      *)
(***************************************************************************)
WINOGRAD_ALPHA == 4
WINOGRAD_TILE == 16
Scale == 4

\* a 0-based vector from a tuple
Vec(t) == [i \in 0..(Len(t) - 1) |-> t[i + 1]]

\* G2 with the sign of the middle entry of row 2 lost
G2_mut == Vec(<< 2, 0, 0,
                1, 1, 1,
                1, 1, 1,
                0, 0, 2 >>)

\* 2*G, row major 4x3
G2 == Vec(<< 2,  0, 0,
            1,  1, 1,
            1, -1, 1,
            0,  0, 2 >>)

\* 4 * (G.g.G^T)[xi][nu] for the 3x3 filter of output o and channel c
FilterTile(ff, o, c, nch, xi, nu) ==
    LET temp == [t \in 0..11 |->
                   LET i == t \div 3
                       j == t % 3
                   IN SumTo([k \in 0..2 |->
                               G2[i*3 + k] * ff[o*nch*9 + c*9 + k*3 + j]], 3)]
    IN SumTo([k \in 0..2 |-> temp[xi*3 + k] * G2[nu*3 + k]], 3)

\* index U[xi, nu, c, o] of the transposed layout
UIndex(xi, nu, c, o, nout, nch) ==
    xi * (4 * nout * nch) + nu * (nout * nch) + c * nout + o

winograd_transform_f(ff, nout, nch) ==
    [idx \in 0..(WINOGRAD_TILE * nout * nch - 1) |->
        LET w == { q \in (0..nout-1) \X (0..nch-1) \X (0..3) \X (0..3) :
                     UIndex(q[3], q[4], q[2], q[1], nout, nch) = idx }
        IN IF w = {} THEN 0
           ELSE LET q == CHOOSE q \in w : TRUE
                IN FilterTile(ff, q[1], q[2], nch, q[3], q[4])]

\* PadIndex with the strides of the two padded dimensions exchanged
PadIndex_mut(xi, nu, c, o, outputs_pad, channels_pad) ==
    xi * (WINOGRAD_ALPHA * outputs_pad * channels_pad)
      + nu * (outputs_pad * channels_pad) + c * channels_pad + o

\* index zeropad_U writes in Upad
PadIndex(xi, nu, c, o, outputs_pad, channels_pad) ==
    xi * (WINOGRAD_ALPHA * outputs_pad * channels_pad)
      + nu * (outputs_pad * channels_pad) + c * outputs_pad + o

\* index zeropad_U reads in U
PadSrcIndex(xi, nu, c, o, nout, nch) ==
    xi * (WINOGRAD_ALPHA * nout * nch) + nu * (nout * nch) + c * nout + o

zeropad_U(UU, nout, nch, outputs_pad, channels_pad) ==
    [idx \in 0..(WINOGRAD_TILE * outputs_pad * channels_pad - 1) |->
        LET w == { q \in (0..nout-1) \X (0..nch-1)
                           \X (0..WINOGRAD_ALPHA-1) \X (0..WINOGRAD_ALPHA-1) :
                     PadIndex(q[3], q[4], q[2], q[1],
                              outputs_pad, channels_pad) = idx }
        IN IF w = {} THEN 0
           ELSE LET q == CHOOSE q \in w : TRUE
                IN UU[PadSrcIndex(q[3], q[4], q[2], q[1], nout, nch)]]

\* the 4x4 input tile of channel ch at block (block_y, block_x), zero padded
InTile(in, ch, block_y, block_x) ==
    LET yin == 2 * block_y - 1
        xin == 2 * block_x - 1
    IN [i \in 0..3 |-> [j \in 0..3 |->
          IF (yin + i) >= 0 /\ (xin + j) >= 0 /\ (yin + i) < 8 /\ (xin + j) < 8
          THEN in[ch*64 + (yin + i)*8 + (xin + j)]
          ELSE 0]]

\* transpose(B).x.B
InTransform(x) ==
    LET T1 == [i \in 0..3 |-> [j \in 0..3 |->
                 CASE i = 0 -> x[0][j] - x[2][j]
                   [] i = 1 -> x[1][j] + x[2][j]
                   [] i = 2 -> x[2][j] - x[1][j]
                   [] i = 3 -> x[1][j] - x[3][j]]]
    IN [i \in 0..3 |-> [j \in 0..3 |->
          CASE j = 0 -> T1[i][0] - T1[i][2]
            [] j = 1 -> T1[i][1] + T1[i][2]
            [] j = 2 -> T1[i][2] - T1[i][1]
            [] j = 3 -> T1[i][1] - T1[i][3]]]

winograd_transform_in(in, nch) ==
    LET wtiles == (8 + 1) \div 2
        P == wtiles * wtiles
        T2 == [t \in 0..(nch * P - 1) |->
                 LET ch == t \div P
                     block_y == (t % P) \div wtiles
                     block_x == t % wtiles
                 IN InTransform(InTile(in, ch, block_y, block_x))]
    IN [idx \in 0..(WINOGRAD_TILE * nch * P - 1) |->
          LET ij == idx \div (nch * P)
              offset == idx % (nch * P)
          IN T2[offset][ij \div WINOGRAD_ALPHA][ij % WINOGRAD_ALPHA]]

\* 16 GEMMs M_b = transpose(U_b) . V_b, U_b stored C x K, V_b stored C x P
winograd_sgemm(UU, VV, nch, nout) ==
    LET P == (8 * 8) \div WINOGRAD_ALPHA
    IN [idx \in 0..(WINOGRAD_TILE * nout * P - 1) |->
          LET b == idx \div (nout * P)
              k == (idx % (nout * P)) \div P
              p == idx % P
              offset_u == b * nout * nch
              offset_v == b * nch * P
          IN SumTo([c \in 0..(nch - 1) |->
                      UU[offset_u + c*nout + k] * VV[offset_v + c*P + p]], nch)]

\* the four pixels <<o11, o12, o21, o22>> of transpose(A).temp_m.A
OutTile(MM, k, b, nout) ==
    LET P == 16
        m == [t \in 0..15 |->
                MM[(t \div 4)*(WINOGRAD_ALPHA*nout*P) + (t % 4)*(nout*P)
                   + k*P + b]]
    IN << m[0] + m[1] + m[2] + m[4] + m[5] + m[6] + m[8] + m[9] + m[10],
          m[1] - m[2] - m[3] + m[5] - m[6] - m[7] + m[9] - m[10] - m[11],
          m[4] + m[5] + m[6] - m[8] - m[9] - m[10] - m[12] - m[13] - m[14],
          m[5] - m[6] - m[7] - m[9] + m[10] + m[11] - m[13] + m[14] + m[15] >>

winograd_transform_out(MM, nout) ==
    LET wtiles == (8 + 1) \div 2
        tiles == [t \in 0..(nout * 16 - 1) |->
                    LET k == t \div 16
                        block_y == (t % 16) \div wtiles
                        block_x == t % wtiles
                    IN OutTile(MM, k, block_y * wtiles + block_x, nout)]
    IN [idx \in 0..(nout * 64 - 1) |->
          LET k == idx \div 64
              yy == (idx % 64) \div 8
              xx == idx % 8
              t == k * 16 + (yy \div 2) * wtiles + (xx \div 2)
          IN tiles[t][1 + 2 * (yy % 2) + (xx % 2)]]

\* input_channels as winograd_convolve3 derives it from U
ConvInputChannels(UU, nout) ==
    LET filter_len == WINOGRAD_ALPHA * WINOGRAD_ALPHA
    IN VecLen(UU) \div (nout * filter_len)

(***************************************************************************)
(* Inputs of the convolution driver: dense pseudo-random patterns plus an  *)
(* impulse on one square of one channel.                                   *)
(***************************************************************************)
FilterPattern(seed, n) ==
    [i \in 0..(n - 1) |-> ((i * (2 * seed + 3) + seed) % 5) - 2]

InputPattern(seed, n, sq) ==
    [i \in 0..(n - 1) |->
        (IF seed = 0 THEN 0 ELSE ((i * 5 + (i \div 8) * 3) % 7) - 3)
        + (IF i = sq THEN 2 ELSE 0)]

WinoOff ==
    /\ wpc = "off"
    /\ outputs = 0 /\ channels = 0
    /\ f = EmptyVec /\ input = EmptyVec
    /\ U = EmptyVec /\ Upad = EmptyVec /\ pad = <<0, 0>>
    /\ V = EmptyVec /\ M = EmptyVec /\ Y = EmptyVec

WinoInit ==
    /\ wpc = "filter"
    /\ outputs \in 1..MaxK
    /\ channels \in 1..MaxC
    /\ \E seed \in Seeds : f = FilterPattern(seed, outputs * channels * 9)
    /\ \E seed \in Seeds : \E ch \in 0..(channels - 1) :
       \E sq \in ImpulseSquares :
          input = InputPattern(seed, channels * 64, ch * 64 + sq)
    /\ U = EmptyVec /\ Upad = EmptyVec /\ pad = <<0, 0>>
    /\ V = EmptyVec /\ M = EmptyVec /\ Y = EmptyVec

\* U = winograd_transform_f(filter, K, C)
TransformF ==
    /\ wpc = "filter"
    /\ U' = winograd_transform_f(f, outputs, channels)
    /\ wpc' = "transformed"
    /\ UNCHANGED <<outputs, channels, f, input, Upad, pad, V, M, Y>>
    /\ UNCHANGED <<netVars, evalVars, extraVars>>

\* Upad = zeropad_U(U, K, C, K_pad, C_pad)
ZeropadU ==
    /\ wpc = "transformed"
    /\ \E op \in outputs..(outputs + MaxPad) :
       \E cp \in channels..(channels + MaxPad) :
          /\ pad' = <<op, cp>>
          /\ Upad' = zeropad_U(U, outputs, channels, op, cp)
    /\ wpc' = "padded"
    /\ UNCHANGED <<outputs, channels, f, input, U, V, M, Y>>
    /\ UNCHANGED <<netVars, evalVars, extraVars>>

\* winograd_convolve3(K, input, U, V, M, output), first call:
\* winograd_transform_in(input, V, input_channels)
Convolve3In ==
    /\ wpc = "transformed"
    /\ V' = winograd_transform_in(input, ConvInputChannels(U, outputs))
    /\ wpc' = "sgemm"
    /\ UNCHANGED <<outputs, channels, f, input, U, Upad, pad, M, Y>>
    /\ UNCHANGED <<netVars, evalVars, extraVars>>

\* second call: winograd_sgemm(U, V, M, input_channels, outputs)
Convolve3Sgemm ==
    /\ wpc = "sgemm"
    /\ M' = winograd_sgemm(U, V, ConvInputChannels(U, outputs), outputs)
    /\ wpc' = "out"
    /\ UNCHANGED <<outputs, channels, f, input, U, Upad, pad, V, Y>>
    /\ UNCHANGED <<netVars, evalVars, extraVars>>

\* third call: winograd_transform_out(M, output, outputs)
Convolve3Out ==
    /\ wpc = "out"
    /\ Y' = winograd_transform_out(M, outputs)
    /\ wpc' = "convolved"
    /\ UNCHANGED <<outputs, channels, f, input, U, Upad, pad, V, M>>
    /\ UNCHANGED <<netVars, evalVars, extraVars>>

WinoNext ==
    \/ TransformF
    \/ ZeropadU
    \/ Convolve3In
    \/ Convolve3Sgemm
    \/ Convolve3Out


(***************************************************************************)
(* Constants of neural/network_old.h.  The plane and policy counts are     *)
(* scaled down; the array capacities keep the source's expressions.        *)
(***************************************************************************)
MAX_FORMAT_VERSION == 2
V1_INPUT_CHANNELS == 2
V2_INPUT_CHANNELS == 1
V1_NUM_OUTPUT_POLICY == 2
V2_NUM_OUTPUT_POLICY == 1
NUM_POLICY_INPUT_PLANES == 2
NUM_VALUE_INPUT_PLANES == 1
NUM_VALUE_CHANNELS == 2
DefaultEpsilon == "1e-5"

get_input_channels(version) ==
    IF version = U64Of(1) THEN V1_INPUT_CHANNELS ELSE V2_INPUT_CHANNELS

get_num_output_policy(version) ==
    IF version = U64Of(1) THEN V1_NUM_OUTPUT_POLICY ELSE V2_NUM_OUTPUT_POLICY

(***************************************************************************)
(* Weight values.  A weight read from the file is an integer.  The arrays  *)
(* of reciprocal standard deviations hold terms: Plain(x) is the float x   *)
(* and Rsd(w, eps) is 1/sqrt(w + eps), kept symbolic.                      *)
(***************************************************************************)
Plain(x) == << "val", x, "" >>

Rsd(w, epsilon) == << "rsd", w, epsilon >>

process_bn_var(weights, epsilon) ==
    [i \in DOMAIN weights |-> Rsd(weights[i], epsilon)]

Zeros(n) == [i \in 0..(n - 1) |-> 0]

PlainZeros(n) == [i \in 0..(n - 1) |-> Plain(0)]

\* the static weight arrays as the program starts
NetEmpty ==
    [ conv_weights      |-> EmptyVec,
      conv_biases       |-> EmptyVec,
      batchnorm_means   |-> EmptyVec,
      batchnorm_stddivs |-> EmptyVec,
      conv_pol_w  |-> EmptyVec,
      conv_pol_b  |-> EmptyVec,
      bn_pol_w1   |-> Zeros(NUM_POLICY_INPUT_PLANES),
      bn_pol_w2   |-> PlainZeros(NUM_POLICY_INPUT_PLANES),
      v1_ip_pol_w |-> Zeros(V1_NUM_OUTPUT_POLICY*8*8*NUM_POLICY_INPUT_PLANES),
      v1_ip_pol_b |-> Zeros(V1_NUM_OUTPUT_POLICY),
      v2_ip_pol_w |-> Zeros(V2_NUM_OUTPUT_POLICY*8*8*NUM_POLICY_INPUT_PLANES),
      v2_ip_pol_b |-> Zeros(V2_NUM_OUTPUT_POLICY),
      conv_val_w  |-> EmptyVec,
      conv_val_b  |-> EmptyVec,
      bn_val_w1   |-> Zeros(NUM_VALUE_INPUT_PLANES),
      bn_val_w2   |-> PlainZeros(NUM_VALUE_INPUT_PLANES),
      ip1_val_w   |-> Zeros(NUM_VALUE_CHANNELS*8*8*NUM_VALUE_INPUT_PLANES),
      ip1_val_b   |-> Zeros(NUM_VALUE_CHANNELS),
      ip2_val_w   |-> Zeros(NUM_VALUE_CHANNELS),
      ip2_val_b   |-> Zeros(1) ]

\* the std::array members of the weights
FixedArrays ==
    { "bn_pol_w1", "bn_pol_w2", "v1_ip_pol_w", "v1_ip_pol_b", "v2_ip_pol_w",
      "v2_ip_pol_b", "bn_val_w1", "bn_val_w2", "ip1_val_w", "ip1_val_b",
      "ip2_val_w", "ip2_val_b" }

\* std::copy(begin(weights), end(weights), begin(arr)); the elements that
\* fit.  Elements past the capacity are an out-of-bounds write.
StdCopy(weights, arr) ==
    [i \in DOMAIN arr |-> IF i < VecLen(weights) THEN weights[i] ELSE arr[i]]

(***************************************************************************)
(* load_network, first pass                                                *)
(***************************************************************************)
\* the test that selects the line whose tokens are counted, made one line
\* earlier
IsChannelsLine_mut(linecount) == linecount = 1

\* if (linecount == 2)
IsChannelsLine(linecount) == linecount = 2

\* the counting loop: i is the next line std::getline returns.  linecount
\* grows by one per line; the line read while the test on linecount holds
\* gives the channels
CountPass(lines, i, linecount, chans) ==
    LET hits == { j \in i..Len(lines) : IsChannelsLine(linecount + (j - i)) }
    IN [linecount |-> linecount + (IF Len(lines) >= i
                                   THEN Len(lines) - i + 1 ELSE 0),
        channels |-> IF hits = {} THEN chans
                     ELSE CountTokens(lines[CHOOSE j \in hits :
                                               \A h \in hits : h <= j])]

\* residual_blocks = linecount - (1 + 4 + 14), tested and divided by 8
ResidualBlocks(linecount) ==
    LET residual_blocks == U64Sub(U64Of(linecount), U64Of(1 + 4 + 14))
    IN [ok |-> U64Mod(residual_blocks, 8) = 0,
        blocks |-> U64Div(residual_blocks, 8)]

\* the version test with the upper limit dropped
VersionRejected_mut(r) == r.fail \/ U64Lt(r.val, U64Of(1))

\* iss.fail() || m_format_version > MAX_FORMAT_VERSION || m_format_version < 1
VersionRejected(r) ==
    \/ r.fail
    \/ U64Lt(U64Of(MAX_FORMAT_VERSION), r.val)
    \/ U64Lt(r.val, U64Of(1))

(***************************************************************************)
(* load_network, second pass: where line number linecount goes             *)
(***************************************************************************)
\* k with linecount == plain_conv_wts + k, or -1
HeadOffset(linecount, plain_conv_wts) ==
    IF \E k \in 0..13 : U64Add(plain_conv_wts, U64Of(k)) = U64Of(linecount)
    THEN CHOOSE k \in 0..13 :
            U64Add(plain_conv_wts, U64Of(k)) = U64Of(linecount)
    ELSE -1

\* the array written for linecount == plain_conv_wts + k
HeadField(k, version) ==
    CASE k = 0 -> "conv_pol_w"
      [] k = 1 -> "conv_pol_b"
      [] k = 2 -> "bn_pol_w1"
      [] k = 3 -> "bn_pol_w2"
      [] k = 4 -> IF version = U64Of(1) THEN "v1_ip_pol_w" ELSE "v2_ip_pol_w"
      [] k = 5 -> IF version = U64Of(1) THEN "v1_ip_pol_b" ELSE "v2_ip_pol_b"
      [] k = 6 -> "conv_val_w"
      [] k = 7 -> "conv_val_b"
      [] k = 8 -> "bn_val_w1"
      [] k = 9 -> "bn_val_w2"
      [] k = 10 -> "ip1_val_w"
      [] k = 11 -> "ip1_val_b"
      [] k = 12 -> "ip2_val_w"
      [] k = 13 -> "ip2_val_b"

\* the head lines process_bn_var is applied to
HeadIsBnVar(k) == k = 3 \/ k = 9

\* the vector of the tower written for linecount % 4
TowerField(kind) ==
    CASE kind = 0 -> "conv_weights"
      [] kind = 1 -> "conv_biases"
      [] kind = 2 -> "batchnorm_means"
      [] kind = 3 -> "batchnorm_stddivs"

\* the weights after the line's branch of the second pass has stored them
StoreLine(n, linecount, plain_conv_wts, weights, version) ==
    IF U64Lt(U64Of(linecount), plain_conv_wts)
    THEN LET kind == linecount % 4
             fld == TowerField(kind)
             w == IF kind = 3 THEN process_bn_var(weights, DefaultEpsilon)
                  ELSE weights
         IN [n EXCEPT ![fld] = Push(n[fld], w)]
    ELSE LET k == HeadOffset(linecount, plain_conv_wts)
         IN IF k = -1 THEN n
            ELSE LET fld == HeadField(k, version)
                     w == IF HeadIsBnVar(k)
                          THEN process_bn_var(weights, DefaultEpsilon)
                          ELSE weights
                 IN IF fld \in FixedArrays
                    THEN [n EXCEPT ![fld] = StdCopy(w, n[fld])]
                    ELSE [n EXCEPT ![fld] = w]

\* the fixed array the line overflows, if any
Overflows(n, linecount, plain_conv_wts, weights, version) ==
    IF U64Lt(U64Of(linecount), plain_conv_wts) THEN {}
    ELSE LET k == HeadOffset(linecount, plain_conv_wts)
         IN IF k = -1 THEN {}
            ELSE LET fld == HeadField(k, version)
                 IN IF fld \in FixedArrays /\ VecLen(weights) > VecLen(n[fld])
                    THEN {fld} ELSE {}

(***************************************************************************)
(* NetworkOld::initialize after load_network has returned                  *)
(***************************************************************************)
\* std::tie(channels, residual_blocks) = load_network_file(...): the pair
\* of int converted to size_t
InitChannels == IntToU64(ret[1])

InitResidualBlocks == IntToU64(ret[2])

\* number of filter tensors initialize transforms: the input convolution
\* and residual_blocks * 2 more
NumTransforms == U64Add(U64Of(1), U64Mul(InitResidualBlocks, 2))

\* floats winograd_transform_f reads from conv_weights[i]
FilterSize(i) ==
    LET nout == U64ToInt(InitChannels)
        nch == IF i = 0 THEN get_input_channels(m_format_version) ELSE nout
    IN nout * nch * 9

\* a vector read up to index n-1, reads past its end giving junk
ReadPast(v, n, junk) ==
    [i \in 0..(n - 1) |-> IF i \in DOMAIN v THEN v[i] ELSE junk]

\* the tower filters after the transform loop
TransformTower(cw, junk) ==
    [i \in DOMAIN cw |->
        IF U64Lt(U64Of(i), NumTransforms)
        THEN LET nout == U64ToInt(InitChannels)
                 nch == IF i = 0 THEN get_input_channels(m_format_version)
                        ELSE nout
             IN winograd_transform_f(ReadPast(cw[i], FilterSize(i), junk),
                                     nout, nch)
        ELSE cw[i]]

\* the transform loop indexes conv_weights or a filter out of bounds
TransformOutOfBounds(cw) ==
    \/ U64Lt(U64Of(VecLen(cw)), NumTransforms)
    \/ \E i \in DOMAIN cw :
          U64Lt(U64Of(i), NumTransforms) /\ VecLen(cw[i]) < FilterSize(i)

\* conv_biases after the fold loop: entry j < batchnorm_means[i].size() is
\* zeroed
FoldBiases(biases, means) ==
    [i \in DOMAIN biases |->
        IF i \in DOMAIN means
        THEN [j \in DOMAIN biases[i] |->
                IF j < VecLen(means[i]) THEN 0 ELSE biases[i][j]]
        ELSE biases[i]]

\* batchnorm_means after the fold loop; a bias read past the end is junk
FoldMeans(biases, means, junk) ==
    [i \in DOMAIN means |->
        IF i \in DOMAIN biases
        THEN [j \in DOMAIN means[i] |->
                means[i][j] - (IF j \in DOMAIN biases[i] THEN biases[i][j]
                               ELSE junk)]
        ELSE means[i]]

\* the fold loop indexes batchnorm_means or a bias vector out of bounds
FoldOutOfBounds(biases, means) ==
    \/ VecLen(biases) > VecLen(means)
    \/ \E i \in DOMAIN biases \cap DOMAIN means :
          VecLen(means[i]) > VecLen(biases[i])

\* the structural test with the policy half dropped
MalformedHeads_mut(n) == VecLen(n.bn_val_w1) # VecLen(n.conv_val_b)

\* (bn_val_w1.size() != conv_val_b.size()) ||
\* (bn_pol_w1.size() != conv_pol_b.size())
MalformedHeads(n) ==
    \/ VecLen(n.bn_val_w1) # VecLen(n.conv_val_b)
    \/ VecLen(n.bn_pol_w1) # VecLen(n.conv_pol_b)

\* the two head loops: bn_*_w1[i] -= conv_*_b[i]; conv_*_b[i] = 0
FoldHeads(n) ==
    [n EXCEPT
       !.bn_val_w1  = [i \in DOMAIN @ |-> @[i] - n.conv_val_b[i]],
       !.conv_val_b = [i \in DOMAIN @ |->
                          IF i < VecLen(n.bn_val_w1) THEN 0 ELSE @[i]],
       !.bn_pol_w1  = [i \in DOMAIN @ |-> @[i] - n.conv_pol_b[i]],
       !.conv_pol_b = [i \in DOMAIN @ |->
                          IF i < VecLen(n.bn_pol_w1) THEN 0 ELSE @[i]]]

(***************************************************************************)
(* Weight files of the model                                               *)
(***************************************************************************)
MaxLines == 27
MaxChannels == 2
MaxVersionLen == 3
VersionAlphabet == { "0", "1", "2", "3", " ", "-", "x" }
JunkValues == { 0, 1 }

RECURSIVE StringsUpTo(_)
StringsUpTo(n) ==
    IF n = 0 THEN { << >> }
    ELSE LET S == StringsUpTo(n - 1)
         IN S \cup { Append(t, ch) :
                       t \in { r \in S : Len(r) = n - 1 },
                       ch \in VersionAlphabet }

\* the characters of an integer of at most two digits
TokenChars(x) ==
    LET a == IF x < 0 THEN -x ELSE x
        d == IF a < 10 THEN << DigitChars[a + 1] >>
             ELSE << DigitChars[(a \div 10) + 1], DigitChars[(a % 10) + 1] >>
    IN IF x < 0 THEN << "-" >> \o d ELSE d

RECURSIVE JoinRange(_, _, _, _)
\* tokens lo..hi of toks, each after two spaces when wide, else one space
\* between tokens
JoinRange(toks, lo, hi, wide) ==
    IF hi < lo THEN << >>
    ELSE IF hi = lo
    THEN (IF wide THEN << " ", " " >> ELSE IF lo > 1 THEN << " " >> ELSE << >>)
         \o TokenChars(toks[lo])
    ELSE LET mid == (lo + hi) \div 2
         IN JoinRange(toks, lo, mid, wide) \o JoinRange(toks, mid + 1, hi, wide)

JoinTokens(toks, i, wide) == JoinRange(toks, i, Len(toks), wide)

\* residual blocks a file of L lines is laid out for
LayoutBlocks(L) == IF L >= 19 THEN (L - 19) \div 8 ELSE 0

\* tokens of the k-th line after the version line
RoleLen(v, K, B, k) ==
    LET T == 4 * (1 + 2 * B)
        cin == IF v = 1 THEN V1_INPUT_CHANNELS ELSE V2_INPUT_CHANNELS
        pout == IF v = 1 THEN V1_NUM_OUTPUT_POLICY ELSE V2_NUM_OUTPUT_POLICY
    IN IF k < T
       THEN (IF k % 4 = 0 THEN K * (IF k = 0 THEN cin ELSE K) * 9 ELSE K)
       ELSE CASE k - T = 0 -> NUM_POLICY_INPUT_PLANES * K
              [] k - T \in 1..3 -> NUM_POLICY_INPUT_PLANES
              [] k - T \in 4..5 -> pout
              [] k - T = 6 -> NUM_VALUE_INPUT_PLANES * K
              [] k - T \in 7..9 -> NUM_VALUE_INPUT_PLANES
              [] k - T \in 10..12 -> NUM_VALUE_CHANNELS
              [] k - T = 13 -> 1
              [] OTHER -> K

IsVarianceLine(B, k) ==
    LET T == 4 * (1 + 2 * B)
    IN (k < T /\ k % 4 = 3) \/ k - T = 3 \/ k - T = 9

TokenValue(k, t, isvar) ==
    LET x == ((k * 3 + t * 7) % 9) + 1
    IN IF ~isvar /\ (k + t) % 4 = 3 THEN -x ELSE x

\* the k-th line after the version line; kind deviates it from the layout
BodyLine(v, K, B, k, kind) ==
    LET n0 == RoleLen(v, K, B, k)
        n == CASE kind = "long" -> n0 + 1
               [] kind = "short" -> n0 - 1
               [] OTHER -> n0
        toks == [t \in 1..n |-> TokenValue(k, t - 1, IsVarianceLine(B, k))]
        chars == JoinTokens(toks, 1, k % 5 = 2)
    IN IF kind = "garbage" THEN chars \o << " ", "x" >> ELSE chars

\* a file of L lines whose lines in D deviate
MakeFile(vline, v, K, L, D, kind) ==
    [i \in 1..L |->
        IF i = 1 THEN vline
        ELSE BodyLine(v, K, LayoutBlocks(L), i - 2,
                      IF i \in D THEN kind ELSE "none")]

VersionLine(v) == << DigitChars[v + 1] >>

\* the version a version line selects the layout for
LayoutVersion(vline) ==
    IF ExtractSizeT(vline).val = U64Of(1) THEN 1 ELSE 2

\* arbitrary first lines in front of a well-formed body
VersionFiles ==
    { MakeFile(vl, LayoutVersion(vl), 1, 19, {}, "none") :
        vl \in StringsUpTo(MaxVersionLen) }

\* well-formed files behind an empty first line, and the short streams
BlankFirstFiles ==
    { << << >> >> \o MakeFile(VersionLine(v), v, 1, 19, {}, "none") :
        v \in 1..MAX_FORMAT_VERSION }
    \cup { << >>, << << >> >>, << << >>, << >> >> }

\* every line count
CountFiles ==
    { MakeFile(VersionLine(v), v, K, L, {}, "none") :
        v \in 1..MAX_FORMAT_VERSION, K \in 1..MaxChannels, L \in 1..MaxLines }

\* files with one line longer or shorter than the layout, or unparsable
DeviantFiles ==
    { MakeFile(VersionLine(v), v, MaxChannels, 19, { d }, kind) :
        v \in 1..MAX_FORMAT_VERSION, d \in 2..19,
        kind \in { "long", "short", "garbage" } }

\* files whose conv-bias line and bn-mean line of one head are both shorter
\* or both longer than the layout: lines 7 and 8 for the policy head, 13 and
\* 14 for the value head
HeadPairFiles ==
    { MakeFile(VersionLine(v), v, MaxChannels, 19, { d, d + 1 }, kind) :
        v \in 1..MAX_FORMAT_VERSION, d \in { 7, 13 },
        kind \in { "long", "short" } }

Files ==
    VersionFiles \cup BlankFirstFiles \cup CountFiles \cup DeviantFiles
    \cup HeadPairFiles

LdInit ==
    [ linecount |-> 0, channels |-> 0, residual_blocks |-> U64Zero,
      plain_conv_wts |-> U64Zero, pos |-> 1 ]

NetOff ==
    /\ npc = "off"
    /\ file = << >>
    /\ initialized = FALSE
    /\ m_format_version = U64Zero
    /\ net = NetEmpty
    /\ ld = LdInit
    /\ ret = << >>
    /\ ub = {}

NetInit ==
    /\ npc = "start"
    /\ file \in Files
    /\ initialized = FALSE
    /\ m_format_version = U64Zero
    /\ net = NetEmpty
    /\ ld = LdInit
    /\ ret = << >>
    /\ ub = {}

\* initialize: if (initialized) return; initialized = true;
InitializeEnter ==
    /\ npc = "start"
    /\ IF initialized
       THEN npc' = "done" /\ UNCHANGED initialized
       ELSE npc' = "version" /\ initialized' = TRUE
    /\ UNCHANGED <<file, m_format_version, net, ld, ret, ub>>
    /\ UNCHANGED <<winoVars, evalVars, extraVars>>

\* load_network: the format version
LoadVersion ==
    /\ npc = "version"
    /\ IF Len(file) = 0
       THEN /\ ret' = << 0, 0 >>
            /\ npc' = "loaded"
            /\ UNCHANGED <<m_format_version, ld>>
       ELSE LET r == ExtractSizeT(file[1])
            IN /\ m_format_version' = r.val
               /\ IF VersionRejected(r)
                  THEN ret' = << 0, 0 >> /\ npc' = "loaded" /\ UNCHANGED ld
                  ELSE /\ npc' = "count"
                       /\ ld' = [ld EXCEPT !.pos = 2]
                       /\ UNCHANGED ret
    /\ UNCHANGED <<file, initialized, net, ub>>
    /\ UNCHANGED <<winoVars, evalVars, extraVars>>

\* load_network: the counting pass and the residual block test
LoadCount ==
    /\ npc = "count"
    /\ LET c == CountPass(file, ld.pos, 1, 0)
           rb == ResidualBlocks(c.linecount)
       IN IF ~rb.ok
          THEN /\ ret' = << 0, 0 >>
               /\ npc' = "loaded"
               /\ ld' = [ld EXCEPT !.linecount = c.linecount,
                                   !.channels = c.channels,
                                   !.pos = Len(file) + 1]
          ELSE /\ npc' = "parse"
               /\ ld' = [ linecount |-> 0,
                          channels |-> c.channels,
                          residual_blocks |-> rb.blocks,
                          plain_conv_wts |->
                             U64Mul(U64Add(U64Of(1), U64Mul(rb.blocks, 2)), 4),
                          pos |-> 2 ]
               /\ UNCHANGED ret
    /\ UNCHANGED <<file, initialized, m_format_version, net, ub>>
    /\ UNCHANGED <<winoVars, evalVars, extraVars>>

\* load_network: one iteration of the parsing loop, or its end
LoadParseLine ==
    /\ npc = "parse"
    /\ IF ld.pos > Len(file)
       THEN /\ ret' = << ld.channels, U64ToInt(ld.residual_blocks) >>
            /\ npc' = "loaded"
            /\ UNCHANGED <<net, ld, ub>>
       ELSE LET p == ParseLine(file[ld.pos])
            IN IF ~p.ok
               THEN /\ ret' = << 0, 0 >>
                    /\ npc' = "loaded"
                    /\ UNCHANGED <<net, ld, ub>>
               ELSE LET ov == Overflows(net, ld.linecount, ld.plain_conv_wts,
                                        p.weights, m_format_version)
                    IN /\ net' = StoreLine(net, ld.linecount,
                                           ld.plain_conv_wts, p.weights,
                                           m_format_version)
                       /\ ub' = ub \cup ov
                       /\ ld' = [ld EXCEPT !.linecount = @ + 1, !.pos = @ + 1]
                       /\ npc' \in { "parse" } \cup
                                   (IF ov # {} THEN { "crashed" } ELSE {})
                       /\ UNCHANGED ret
    /\ UNCHANGED <<file, initialized, m_format_version>>
    /\ UNCHANGED <<winoVars, evalVars, extraVars>>

\* initialize: if (channels == 0) exit(EXIT_FAILURE);
InitAfterLoad ==
    /\ npc = "loaded"
    /\ npc' = IF InitChannels = U64Zero THEN "exited" ELSE "transform"
    /\ UNCHANGED <<file, initialized, m_format_version, net, ld, ret, ub>>
    /\ UNCHANGED <<winoVars, evalVars, extraVars>>

\* initialize: the Winograd transform of the tower filters
InitTransform ==
    /\ npc = "transform"
    /\ IF TransformOutOfBounds(net.conv_weights)
       THEN /\ ub' = ub \cup { "conv_weights" }
            /\ \/ npc' = "crashed" /\ UNCHANGED net
               \/ /\ npc' = "fold"
                  /\ \E junk \in JunkValues :
                        net' = [net EXCEPT !.conv_weights =
                                   TransformTower(@, junk)]
       ELSE /\ net' = [net EXCEPT !.conv_weights = TransformTower(@, 0)]
            /\ npc' = "fold"
            /\ UNCHANGED ub
    /\ UNCHANGED <<file, initialized, m_format_version, ld, ret>>
    /\ UNCHANGED <<winoVars, evalVars, extraVars>>

\* initialize: the tower biases are moved into the batchnorm means
InitFoldTower ==
    /\ npc = "fold"
    /\ IF FoldOutOfBounds(net.conv_biases, net.batchnorm_means)
       THEN /\ ub' = ub \cup { "conv_biases" }
            /\ \/ npc' = "crashed" /\ UNCHANGED net
               \/ /\ npc' = "check"
                  /\ \E junk \in JunkValues :
                        net' = [net EXCEPT
                           !.conv_biases =
                              FoldBiases(net.conv_biases, net.batchnorm_means),
                           !.batchnorm_means =
                              FoldMeans(net.conv_biases, net.batchnorm_means,
                                        junk)]
       ELSE /\ net' = [net EXCEPT
                  !.conv_biases =
                     FoldBiases(net.conv_biases, net.batchnorm_means),
                  !.batchnorm_means =
                     FoldMeans(net.conv_biases, net.batchnorm_means, 0)]
            /\ npc' = "check"
            /\ UNCHANGED ub
    /\ UNCHANGED <<file, initialized, m_format_version, ld, ret>>
    /\ UNCHANGED <<winoVars, evalVars, extraVars>>

\* initialize: the structural test of the head sizes
InitCheck ==
    /\ npc = "check"
    /\ npc' = IF MalformedHeads(net) THEN "thrown" ELSE "foldheads"
    /\ UNCHANGED <<file, initialized, m_format_version, net, ld, ret, ub>>
    /\ UNCHANGED <<winoVars, evalVars, extraVars>>

\* initialize: the head biases are moved into the head batchnorm means
InitFoldHeads ==
    /\ npc = "foldheads"
    /\ net' = FoldHeads(net)
    /\ npc' = "done"
    /\ UNCHANGED <<file, initialized, m_format_version, ld, ret, ub>>
    /\ UNCHANGED <<winoVars, evalVars, extraVars>>

NetNext ==
    \/ InitializeEnter
    \/ LoadVersion
    \/ LoadCount
    \/ LoadParseLine
    \/ InitAfterLoad
    \/ InitTransform
    \/ InitFoldTower
    \/ InitCheck
    \/ InitFoldHeads

(***************************************************************************)
(* NetworkOld::get_scored_moves and the accelerator self-check.            *)
(* Network outputs are fixed point numbers in units of 1/10000.            *)
(***************************************************************************)
Min(a, b) == IF a < b THEN a ELSE b

Max(a, b) == IF a > b THEN a ELSE b

Abs(a) == IF a < 0 THEN -a ELSE a

\* the float that is not a number
NaN == -(2 * 1000000)

IsNaN(a) == a = NaN

\* std::numeric_limits<T>::max() as an error
MaxError == << 1, 0 >>

\* relative_difference with the sign test applied to small values too
relative_difference_mut(a, b) ==
    LET small_number == 10
        ca == Max(Abs(a), small_number)
        cb == Max(Abs(b), small_number)
    IN IF IsNaN(a) \/ IsNaN(b) THEN MaxError
       ELSE IF ((a < 0) # (b < 0)) /\ a # 0 /\ b # 0 THEN MaxError
            ELSE << Abs(ca - cb), Min(ca, cb) >>

\* relative_difference(a, b): the error as a fraction <<numerator, denominator>>
relative_difference(a, b) ==
    LET small_number == 10
        fa == Abs(a)
        fb == Abs(b)
        ca == Max(fa, small_number)
        cb == Max(fb, small_number)
    IN IF IsNaN(a) \/ IsNaN(b) THEN MaxError
       ELSE IF fa > small_number /\ fb > small_number
               /\ ((a < 0) # (b < 0)) /\ a # 0 /\ b # 0
            THEN MaxError
            ELSE << Abs(ca - cb), Min(ca, cb) >>

\* err > relative_error with relative_error = 10e-2f
ExceedsRelativeError(err) == err[2] = 0 \/ 10 * err[1] > err[2]

SELFCHECK_MIN_EXPANSIONS == 2000000
SELFCHECK_PROBABILITY == 2000

min_correct_expansions ==
    (SELFCHECK_MIN_EXPANSIONS \div SELFCHECK_PROBABILITY) \div 2

\* num_expansions = std::min(num_expansions + 1, 3 * min_correct_expansions)
BumpExpansions(n) == Min(n + 1, 3 * min_correct_expansions)

\* the test on the credit, off by one
CreditExhausted_mut(n) == n <= min_correct_expansions

\* if (num_expansions < min_correct_expansions)
CreditExhausted(n) == n < min_correct_expansions

\* the elements at which the loop body changes state, in index order: not
\* display_only and err > relative_error
Mismatches(data, ref, display_only) ==
    LET Exceeds(idx) ==
           /\ ~display_only
           /\ ExceedsRelativeError(relative_difference(data[idx], ref[idx]))
    IN SelectSeq([i \in 1..VecLen(data) |-> i - 1], Exceeds)

\* the loop body with the subtraction left out: credit is never spent
CompareStep_mut(st) ==
    IF CreditExhausted(st.num_expansions)
    THEN [st EXCEPT !.almost_equal = FALSE, !.fatal = TRUE]
    ELSE [st EXCEPT !.almost_equal = FALSE]

\* the loop body at an element of Mismatches; st holds almost_equal, fatal
\* and num_expansions
CompareStep(st) ==
    IF CreditExhausted(st.num_expansions)
    THEN [st EXCEPT !.almost_equal = FALSE, !.fatal = TRUE]
    ELSE [st EXCEPT !.almost_equal = FALSE,
                    !.num_expansions = @ - min_correct_expansions]

RECURSIVE CompareFrom(_, _, _)
\* CompareStep at the elements k.. of mism
CompareFrom(mism, k, st) ==
    IF k > Len(mism) THEN st
    ELSE CompareFrom(mism, k + 1, CompareStep(st))

\* for (auto idx = size_t{0}; idx < data.size(); ++idx)
CompareLoop(data, ref, display_only, idx, st) ==
    CompareFrom(Mismatches(data, ref, display_only), idx + 1, st)

\* compare_net_outputs(data, ref, fatal, display_only) on the shared counter n
compare_net_outputs(data, ref, ftl, display_only, n) ==
    CompareLoop(data, ref, display_only, 0,
                [ almost_equal |-> TRUE, fatal |-> ftl,
                  num_expansions |-> BumpExpansions(n) ])

\* bits of the 64-bit operand (1l << i) after its conversion to the type of
\* plane.mask.  A long of 64 bits gives bit i.  A long of 32 bits gives bit i
\* below 31, the sign-extended bits 31..63 for i = 31, and has no defined
\* value from i = 32 on: the shift count wraps, or the result is 0.
ShiftedOne(i, bld) ==
    IF bld.long_bits = 64 THEN { i }
    ELSE IF i < 31 THEN { i }
    ELSE IF i = 31 THEN 31..63
    ELSE IF bld.wide_shift = "zero" THEN {}
    ELSE IF i - 32 < 31 THEN { i - 32 }
    ELSE 31..63

\* the loop over the planes: input_data.emplace_back(set ? value : 0.0f)
Materialize(pl, bld) ==
    [idx \in 0..(Len(pl) * 64 - 1) |->
        LET plane == pl[(idx \div 64) + 1]
            i == idx % 64
            set == plane.mask \cap ShiftedOne(i, bld)
        IN IF set # {} THEN plane.value ELSE 0]

(***************************************************************************)
(* Inputs of the evaluator model                                           *)
(***************************************************************************)
MaxMismatch == 3
ManyMismatch == 10
PlaneValues == { 1, 3 }

\* occupancy masks, as sets of bit numbers
PlaneMasks ==
    { {}, 0..63, { 0, 63 }, { 31, 32 } } \cup { { i } : i \in 0..63 }

\* the masks of the planes after the first
OtherPlaneMasks == { {}, { 7, 40 } }

\* the builds: the width of long, and what a shift by 32 or more does
Builds ==
    { [long_bits |-> 64, wide_shift |-> "none"],
      [long_bits |-> 32, wide_shift |-> "wrap"],
      [long_bits |-> 32, wide_shift |-> "zero"] }

\* plane lists of the length the format version asks for
PlaneLists(version) ==
    LET n == get_input_channels(version)
    IN { [c \in 1..n |-> IF c = 1 THEN [mask |-> m, value |-> x]
                         ELSE [mask |-> om, value |-> 4 - x]] :
           m \in PlaneMasks, om \in OtherPlaneMasks, x \in PlaneValues }

\* elements that differ from the reference beyond the tolerance
BadValue(i) ==
    CASE i % 3 = 0 -> 1200
      [] i % 3 = 1 -> -1000
      [] i % 3 = 2 -> NaN

\* a vector of len elements, the first m of them bad
OutVec(len, good, m) ==
    [i \in 0..(len - 1) |-> IF i < m THEN BadValue(i) ELSE good]

PolicyLen == get_num_output_policy(m_format_version)

ValueLen == NUM_VALUE_INPUT_PLANES * 8 * 8

\* outputs of the CPU forward pass: the reference
ReferenceOutputs ==
    { [policy |-> OutVec(PolicyLen, g, 0), value |-> OutVec(ValueLen, g, 0)] :
        g \in { 1000 } }

\* what the accelerator may answer where the reference is r
AcceleratorOutputs(r) ==
    { [policy |-> OutVec(PolicyLen, g, mp), value |-> OutVec(ValueLen, g, mv)] :
        g \in { r.policy[0] + 5 },
        mp \in 0..(Min(1, MaxMismatch)),
        mv \in (0..MaxMismatch) \cup { ManyMismatch } }

NoOutputs == [policy |-> EmptyVec, value |-> EmptyVec]

EvalOff ==
    /\ epc = "off"
    /\ build = [long_bits |-> 64, wide_shift |-> "none"]
    /\ planes = << >>
    /\ input_data = EmptyVec
    /\ out = NoOutputs /\ cpu_out = NoOutputs /\ retry_out = NoOutputs
    /\ num_expansions = min_correct_expansions
    /\ fatal = FALSE /\ almost_equal = TRUE
    /\ entry_expansions = min_correct_expansions

\* the state of the evaluator when initialize has returned
EvalStart ==
    /\ epc = "idle"
    /\ input_data = EmptyVec
    /\ out = NoOutputs /\ cpu_out = NoOutputs /\ retry_out = NoOutputs
    /\ num_expansions = min_correct_expansions
    /\ fatal = FALSE /\ almost_equal = TRUE
    /\ entry_expansions = min_correct_expansions

\* the weights as far as the evaluator steps modelled here read them
NetLoaded ==
    /\ npc = "done"
    /\ file = << >>
    /\ initialized = TRUE
    /\ m_format_version \in { U64Of(v) : v \in 1..MAX_FORMAT_VERSION }
    /\ net = NetEmpty
    /\ ld = LdInit
    /\ ret = << >>
    /\ ub = {}

\* get_scored_moves is entered: the planes are made dense
GetScoredMoves ==
    /\ epc \in { "idle", "returned" }
    /\ input_data' = Materialize(planes, build)
    /\ entry_expansions' = num_expansions
    /\ epc' = "forward"
    /\ UNCHANGED <<build, planes, out, cpu_out, retry_out, num_expansions,
                   fatal, almost_equal>>
    /\ UNCHANGED <<winoVars, netVars, extraVars>>

\* forward_cpu(input_data, policy_data, value_data), a build without OpenCL
ForwardCpu ==
    /\ epc = "forward"
    /\ \E r \in ReferenceOutputs : out' = r
    /\ epc' = "scored"
    /\ UNCHANGED <<build, planes, input_data, cpu_out, retry_out,
                   num_expansions, fatal, almost_equal, entry_expansions>>
    /\ UNCHANGED <<winoVars, netVars, extraVars>>

\* softmax, the value head's second layer and tanh; the pair is returned
ReturnMoves ==
    /\ epc = "scored"
    /\ epc' = "returned"
    /\ input_data' = EmptyVec
    /\ out' = NoOutputs /\ cpu_out' = NoOutputs /\ retry_out' = NoOutputs
    /\ fatal' = FALSE /\ almost_equal' = TRUE
    /\ entry_expansions' = num_expansions
    /\ UNCHANGED <<build, planes, num_expansions>>
    /\ UNCHANGED <<winoVars, netVars, extraVars>>

\* opencl.forward(input_data, policy_data, value_data) and the draw that
\* skips the self-check: Random::Get().GetFloat(SELFCHECK_PROBABILITY) >= 1
ForwardOpenCL ==
    /\ epc = "forward"
    /\ \E r \in ReferenceOutputs : \E a \in AcceleratorOutputs(r) :
          /\ out' = a
          /\ \/ epc' = "scored" /\ cpu_out' = cpu_out
             \/ epc' = "compare_policy" /\ cpu_out' = r
    /\ fatal' = FALSE
    /\ UNCHANGED <<build, planes, input_data, retry_out, num_expansions,
                   almost_equal, entry_expansions>>
    /\ UNCHANGED <<winoVars, netVars, extraVars>>

\* almost_equal = compare_net_outputs(policy_data, cpu_policy_data, fatal)
ComparePolicy ==
    /\ epc = "compare_policy"
    /\ LET st == compare_net_outputs(out.policy, cpu_out.policy, fatal, FALSE,
                                     num_expansions)
       IN /\ almost_equal' = st.almost_equal
          /\ fatal' = st.fatal
          /\ num_expansions' = st.num_expansions
    /\ epc' = "compare_value"
    /\ UNCHANGED <<build, planes, input_data, out, cpu_out, retry_out,
                   entry_expansions>>
    /\ UNCHANGED <<winoVars, netVars, extraVars>>

\* almost_equal &= compare_net_outputs(value_data, cpu_value_data, fatal)
CompareValue ==
    /\ epc = "compare_value"
    /\ LET st == compare_net_outputs(out.value, cpu_out.value, fatal, FALSE,
                                     num_expansions)
       IN /\ almost_equal' = (almost_equal /\ st.almost_equal)
          /\ fatal' = st.fatal
          /\ num_expansions' = st.num_expansions
    /\ epc' = "checked"
    /\ UNCHANGED <<build, planes, input_data, out, cpu_out, retry_out,
                   entry_expansions>>
    /\ UNCHANGED <<winoVars, netVars, extraVars>>

\* if (!almost_equal) is not taken
SelfCheckPassed ==
    /\ epc = "checked"
    /\ almost_equal
    /\ epc' = "scored"
    /\ UNCHANGED <<build, planes, input_data, out, cpu_out, retry_out,
                   num_expansions, fatal, almost_equal, entry_expansions>>
    /\ UNCHANGED <<winoVars, netVars, extraVars>>

\* the two display-only comparisons "orig policy" and "orig value"
MismatchReport ==
    /\ epc = "checked"
    /\ ~almost_equal
    /\ LET s1 == compare_net_outputs(out.policy, cpu_out.policy, fatal, TRUE,
                                     num_expansions)
           s2 == compare_net_outputs(out.value, cpu_out.value, s1.fatal, TRUE,
                                     s1.num_expansions)
       IN /\ fatal' = s2.fatal
          /\ num_expansions' = s2.num_expansions
    /\ epc' = "retry"
    /\ UNCHANGED <<build, planes, input_data, out, cpu_out, retry_out,
                   almost_equal, entry_expansions>>
    /\ UNCHANGED <<winoVars, netVars, extraVars>>

\* opencl.forward a second time and the comparisons "retry policy" and
\* "retry value", then the two throws
RetryForward ==
    /\ epc = "retry"
    /\ \E a \in { out, cpu_out } :
          LET s1 == compare_net_outputs(a.policy, out.policy, fatal, TRUE,
                                        num_expansions)
              s2 == compare_net_outputs(a.value, out.value, s1.fatal, TRUE,
                                        s1.num_expansions)
              almost_equal_retry == s1.almost_equal /\ s2.almost_equal
          IN /\ retry_out' = a
             /\ fatal' = s2.fatal
             /\ num_expansions' = s2.num_expansions
             /\ epc' = IF ~almost_equal_retry THEN "retry_mismatch"
                       ELSE IF s2.fatal THEN "selfcheck_mismatch"
                       ELSE "scored"
    /\ UNCHANGED <<build, planes, input_data, out, cpu_out, almost_equal,
                   entry_expansions>>
    /\ UNCHANGED <<winoVars, netVars, extraVars>>

InitPlanes ==
    /\ WinoOff /\ NetLoaded /\ EvalStart /\ ExtrasOff
    /\ build \in Builds
    /\ planes \in PlaneLists(m_format_version)

NextPlanes == GetScoredMoves \/ ForwardCpu \/ ReturnMoves

SpecPlanes == InitPlanes /\ [][NextPlanes]_vars

InitSelfCheck ==
    /\ WinoOff /\ NetLoaded /\ EvalStart /\ ExtrasOff
    /\ m_format_version = U64Of(1)
    /\ build = [long_bits |-> 64, wide_shift |-> "none"]
    /\ planes = [c \in 1..get_input_channels(m_format_version) |->
                    [mask |-> { c }, value |-> 1]]

NextSelfCheck ==
    \/ GetScoredMoves
    \/ ForwardOpenCL
    \/ ComparePolicy
    \/ CompareValue
    \/ SelfCheckPassed
    \/ MismatchReport
    \/ RetryForward
    \/ ReturnMoves

SpecSelfCheck == InitSelfCheck /\ [][NextSelfCheck]_vars

InitNet == WinoOff /\ NetInit /\ EvalOff /\ ExtrasOff
SpecNet == InitNet /\ [][NetNext]_vars

InitWinograd == WinoInit /\ NetOff /\ EvalOff /\ ExtrasOff
SpecWinograd == InitWinograd /\ [][WinoNext]_vars

(***************************************************************************)
(* relative_difference and the mismatch test of compare_net_outputs on one *)
(* pair of elements                                                        *)
(***************************************************************************)
\* element values in units of 1/10000: zero, values below, at and above
\* small_number, ordinary outputs near one another, and NaN; no two of them
\* have an error of exactly 0.1, where the rounding of float decides
CmpValues ==
    { 0, 5, -5, 9, -9, 10, -10, 12, -12, 30, -30,
      905, 1000, -1000, 1099, 1101, 1200, NaN }

InitCompare ==
    /\ WinoOff /\ NetOff /\ EvalOff /\ ResOff /\ FwdOff /\ SearchOff
    /\ ThrOff /\ CallOff
    /\ cpc = "start"
    /\ cmp_a \in CmpValues
    /\ cmp_b \in CmpValues
    /\ cmp_err = << 0, 1 >>

\* auto err = relative_difference(data[idx], ref[idx])
RelativeDifference ==
    /\ cpc = "start"
    /\ cmp_err' = relative_difference(cmp_a, cmp_b)
    /\ cpc' = "measured"
    /\ UNCHANGED <<cmp_a, cmp_b>>
    /\ UNCHANGED <<coreVars, resVars, fwdVars, searchVars, thrVars,
                    callVars>>

\* else if (err > relative_error), in a comparison that is not display_only
TestError ==
    /\ cpc = "measured"
    /\ cpc' = IF ExceedsRelativeError(cmp_err) THEN "mismatch" ELSE "equal"
    /\ UNCHANGED <<cmp_a, cmp_b, cmp_err>>
    /\ UNCHANGED <<coreVars, resVars, fwdVars, searchVars, thrVars,
                    callVars>>

NextCompare == RelativeDifference \/ TestError

SpecCompare == InitCompare /\ [][NextCompare]_vars

(***************************************************************************)
(* SearchResult.  Evaluations are in units of 1/10000.                     *)
(***************************************************************************)
EvalUnit == 10000

\* SearchResult() = default
DefaultResult == [m_valid |-> FALSE, m_eval |-> 0]

\* explicit SearchResult(float eval)
MakeResult(eval) == [m_valid |-> TRUE, m_eval |-> eval]

from_eval(eval) == MakeResult(eval)

\* from_score with the results for a won and a lost board exchanged
from_score_mut(board_score) ==
    IF board_score > 0 THEN MakeResult(0)
    ELSE IF board_score < 0 THEN MakeResult(EvalUnit)
    ELSE MakeResult(EvalUnit \div 2)

from_score(board_score) ==
    IF board_score > 0 THEN MakeResult(EvalUnit)
    ELSE IF board_score < 0 THEN MakeResult(0)
    ELSE MakeResult(EvalUnit \div 2)

\* board scores handed to from_score
BoardScores == (-40)..40

\* the winrate get_scored_moves returns, std::tanh(winrate_out[0]): values
\* of -1 .. 1 in steps of 1/20
Winrates == { (EvalUnit \div 20) * k : k \in (-20)..20 }

InitResult ==
    /\ WinoOff /\ NetOff /\ EvalOff /\ CmpOff /\ FwdOff /\ SearchOff
    /\ ThrOff /\ CallOff
    /\ rpc = "none"
    /\ res_arg = 0
    /\ result = DefaultResult

\* auto result = SearchResult{}
MakeDefault ==
    /\ rpc = "none"
    /\ rpc' = "default"
    /\ result' = DefaultResult
    /\ UNCHANGED res_arg
    /\ UNCHANGED <<coreVars, cmpVars, fwdVars, searchVars, thrVars,
                    callVars>>

\* the result of a finished game
FromScore ==
    /\ rpc = "none"
    /\ \E s \in BoardScores :
          /\ res_arg' = s
          /\ result' = from_score(s)
    /\ rpc' = "from_score"
    /\ UNCHANGED <<coreVars, cmpVars, fwdVars, searchVars, thrVars,
                    callVars>>

\* the result of an expansion: the value the evaluator returned
FromEval ==
    /\ rpc = "none"
    /\ \E e \in Winrates :
          /\ res_arg' = e
          /\ result' = from_eval(e)
    /\ rpc' = "from_eval"
    /\ UNCHANGED <<coreVars, cmpVars, fwdVars, searchVars, thrVars,
                    callVars>>

NextResult == MakeDefault \/ FromScore \/ FromEval

SpecResult == InitResult /\ [][NextResult]_vars

(***************************************************************************)
(* NetworkOld::forward_cpu.  A buffer is described by the expression that  *)
(* computed its contents: a record naming the operation, the layer whose   *)
(* weights it used, and the buffers it read.                               *)
(***************************************************************************)
MaxBlocks == 3

\* a buffer as std::vector<float>(n) leaves it
Zeroed == [op |-> "zeros"]

\* the argument input
InputOf(name) == [op |-> "input", name |-> name]

\* winograd_convolve3(outputs, in, conv_weights[i], V, M, out)
Convolve3(i, in) == [op |-> "winograd_convolve3", i |-> i, in |-> in]

\* convolve<1>(outputs, in, weights, biases, out) of the head named h
Convolve1(h, in) == [op |-> "convolve1", i |-> h, in |-> in]

\* scale_stddiv * (arr[b] - mean) with the means and stddivs of layer i
Normalized(i, data) == [op |-> "normalize", i |-> i, in |-> data]

\* lambda_ReLU
ReLU(x) == [op |-> "relu", in |-> x]

\* res[b] + x
AddEltwise(eltwise, x) == [op |-> "add", res |-> eltwise, in |-> x]

NoEltwise == [op |-> "nullptr"]

\* batchnorm that ignores its eltwise argument
batchnorm_mut(i, data, eltwise) == ReLU(Normalized(i, data))

\* batchnorm<spatial_size>(channels, data, means, stddivs, eltwise)
batchnorm(i, data, eltwise) ==
    IF eltwise = NoEltwise
    THEN ReLU(Normalized(i, data))
    ELSE ReLU(AddEltwise(eltwise, Normalized(i, data)))

\* innerproduct<inputs, outputs>(in, weights, biases, out); the ReLU is
\* applied when outputs == NUM_VALUE_CHANNELS
innerproduct(w, noutputs, in) ==
    LET val == [op |-> "innerproduct", i |-> w, in |-> in]
    IN IF noutputs = NUM_VALUE_CHANNELS THEN ReLU(val) ELSE val

InputNames == { "a", "b" }

InitForward ==
    /\ WinoOff /\ NetLoaded /\ EvalOff /\ CmpOff /\ ResOff /\ SearchOff
    /\ ThrOff /\ CallOff
    /\ fpc = "start"
    /\ tower \in { 1 + 2 * blocks : blocks \in 0..MaxBlocks }
    /\ fwd_in \in { InputOf(n) : n \in InputNames }
    /\ conv_in = Zeroed /\ conv_out = Zeroed /\ res = Zeroed
    /\ layer = 0
    /\ heads = << >>

\* winograd_convolve3(output_channels, input, conv_weights[0], V, M, conv_out)
FwdInputConv ==
    /\ fpc = "start"
    /\ conv_out' = Convolve3(0, fwd_in)
    /\ fpc' = "input_bn"
    /\ UNCHANGED <<tower, fwd_in, conv_in, res, layer, heads>>
    /\ UNCHANGED <<coreVars, cmpVars, resVars, searchVars, thrVars,
                    callVars>>

\* batchnorm<64>(output_channels, conv_out, means[0], stddivs[0]), and the
\* loop variable is set to 1
FwdInputBn ==
    /\ fpc = "input_bn"
    /\ conv_out' = batchnorm(0, conv_out, NoEltwise)
    /\ layer' = 1
    /\ fpc' = "loop"
    /\ UNCHANGED <<tower, fwd_in, conv_in, res, heads>>
    /\ UNCHANGED <<coreVars, cmpVars, resVars, searchVars, thrVars,
                    callVars>>

\* i < conv_weights.size(): std::swap(conv_out, conv_in) and the copy of
\* conv_in to res
FwdSaveResidual ==
    /\ fpc = "loop"
    /\ layer < tower
    /\ conv_in' = conv_out
    /\ conv_out' = conv_in
    /\ res' = conv_out
    /\ fpc' = "conv1"
    /\ UNCHANGED <<tower, fwd_in, layer, heads>>
    /\ UNCHANGED <<coreVars, cmpVars, resVars, searchVars, thrVars,
                    callVars>>

\* winograd_convolve3(output_channels, conv_in, conv_weights[i], ...)
FwdConv1 ==
    /\ fpc = "conv1"
    /\ conv_out' = Convolve3(layer, conv_in)
    /\ fpc' = "bn1"
    /\ UNCHANGED <<tower, fwd_in, conv_in, res, layer, heads>>
    /\ UNCHANGED <<coreVars, cmpVars, resVars, searchVars, thrVars,
                    callVars>>

\* batchnorm<64>(output_channels, conv_out, means[i], stddivs[i])
FwdBn1 ==
    /\ fpc = "bn1"
    /\ conv_out' = batchnorm(layer, conv_out, NoEltwise)
    /\ fpc' = "conv2"
    /\ UNCHANGED <<tower, fwd_in, conv_in, res, layer, heads>>
    /\ UNCHANGED <<coreVars, cmpVars, resVars, searchVars, thrVars,
                    callVars>>

\* std::swap(conv_out, conv_in) and
\* winograd_convolve3(output_channels, conv_in, conv_weights[i + 1], ...)
FwdConv2 ==
    /\ fpc = "conv2"
    /\ conv_in' = conv_out
    /\ conv_out' = Convolve3(layer + 1, conv_out)
    /\ fpc' = "bn2"
    /\ UNCHANGED <<tower, fwd_in, res, layer, heads>>
    /\ UNCHANGED <<coreVars, cmpVars, resVars, searchVars, thrVars,
                    callVars>>

\* batchnorm<64>(..., means[i + 1], stddivs[i + 1], res.data()); i += 2
FwdBn2 ==
    /\ fpc = "bn2"
    /\ conv_out' = batchnorm(layer + 1, conv_out, res)
    /\ layer' = layer + 2
    /\ fpc' = "loop"
    /\ UNCHANGED <<tower, fwd_in, conv_in, res, heads>>
    /\ UNCHANGED <<coreVars, cmpVars, resVars, searchVars, thrVars,
                    callVars>>

\* the loop has ended: the two convolve<1>, the two batchnorm and the
\* innerproducts of the heads
FwdHeads ==
    /\ fpc = "loop"
    /\ ~(layer < tower)
    /\ LET policy_data == batchnorm("pol", Convolve1("pol", conv_out),
                                    NoEltwise)
           value_data == batchnorm("val", Convolve1("val", conv_out),
                                   NoEltwise)
       IN heads' =
             [ policy_data |-> policy_data,
               value_data |-> value_data,
               output_pol |->
                  IF m_format_version = U64Of(1)
                  THEN innerproduct("v1_ip_pol", V1_NUM_OUTPUT_POLICY,
                                    policy_data)
                  ELSE innerproduct("v2_ip_pol", V2_NUM_OUTPUT_POLICY,
                                    policy_data),
               output_val |->
                  innerproduct("ip1_val", NUM_VALUE_CHANNELS, value_data) ]
    /\ fpc' = "done"
    /\ UNCHANGED <<tower, fwd_in, conv_in, conv_out, res, layer>>
    /\ UNCHANGED <<coreVars, cmpVars, resVars, searchVars, thrVars,
                    callVars>>

NextForward ==
    \/ FwdInputConv
    \/ FwdInputBn
    \/ FwdSaveResidual
    \/ FwdConv1
    \/ FwdBn1
    \/ FwdConv2
    \/ FwdBn2
    \/ FwdHeads

SpecForward == InitForward /\ [][NextForward]_vars

(***************************************************************************)
(* UCT search: think, the workers and play_simulation on the shared tree.  *)
(* A node is the sequence of moves that leads to it from the root.         *)
(***************************************************************************)
MAX_TREE_SIZE == 40000000

MaxDepth == 2
MaxPlayouts == 2
BranchingFactor == 2
WorkerCounts == { 1, 2 }
Workers == 1..2

Root == << >>

\* the games: in "full" every position above MaxDepth has BranchingFactor
\* moves; in "mate" the first move of a position ends the game at once
Games == { "full", "mate" }

\* legal_moves() of the position of node n: how many there are
LegalMoves(n) ==
    IF Len(n) >= MaxDepth THEN 0
    ELSE IF moves = "mate" /\ Len(n) > 0 /\ n[Len(n)] = 1 THEN 0
    ELSE BranchingFactor

\* terminal_value() of a position without legal moves: the side to move is
\* mated after move 1, every other end is a draw
TerminalValue(n) ==
    IF Len(n) > 0 /\ n[Len(n)] = 1
    THEN from_score(-1).m_eval
    ELSE from_score(0).m_eval

\* the value the evaluator gives for the position of node n, in [0,1]: a
\* function of the position alone
NetEval(n) ==
    IF Len(n) = 0 THEN EvalUnit \div 2
    ELSE IF n[Len(n)] = 1 THEN 0
    ELSE EvalUnit

Children(n) == { Append(n, m) : m \in 1..LegalMoves(n) }

Top(w) == stack[w][Len(stack[w])]

\* a function extended or overwritten on the nodes of S
SetOn(g, S, x) == [n \in (DOMAIN g) \cup S |-> IF n \in S THEN x ELSE g[n]]

\* a limit that is off by one: one more simulation may start
MayStart_mut ==
    /\ running
    /\ m_playouts <= m_maxplayouts
    /\ m_nodes < MAX_TREE_SIZE

\* is_running, playout_limit_reached and the node ceiling: a simulation may
\* start
MayStart ==
    /\ running
    /\ m_playouts < m_maxplayouts
    /\ m_nodes < MAX_TREE_SIZE

\* the exclusive state CAS of expand that succeeds on every node that is
\* not yet expanded, also on one another thread is expanding
CasWins_mut(n) == nstate[n] \in { "UNEXPANDED", "EXPANDING" }

\* the exclusive state CAS of expand: UNEXPANDED -> EXPANDING
CasWins(n) == nstate[n] = "UNEXPANDED"

InitSearch ==
    /\ WinoOff /\ NetOff /\ EvalOff /\ CmpOff /\ ResOff /\ FwdOff
    /\ ThrOff /\ CallOff
    /\ tpc = "running"
    /\ running = TRUE
    /\ m_maxplayouts \in 1..MaxPlayouts
    /\ m_playouts = 0
    /\ m_nodes = 1
    /\ nworkers \in WorkerCounts
    /\ moves \in Games
    /\ nstate = (Root :> "UNEXPANDED")
    /\ visits = (Root :> 0)
    /\ value_sum = (Root :> 0)
    /\ virtual_loss = (Root :> 0)
    /\ spc = [w \in Workers |-> IF w <= nworkers THEN "idle" ELSE "absent"]
    /\ stack = [w \in Workers |-> << >>]
    /\ value = [w \in Workers |-> 0]
    /\ evals = 0
    /\ expansions = (Root :> 0)
    /\ terminal_hits = 0
    /\ cancelled = FALSE

\* a worker, between simulations, finds that one may start and calls
\* play_simulation on the root
StartSimulation ==
    \E w \in Workers :
       /\ spc[w] = "idle"
       /\ MayStart
       /\ stack' = [stack EXCEPT ![w] = << Root >>]
       /\ spc' = [spc EXCEPT ![w] = "visit"]
       /\ UNCHANGED <<running, m_maxplayouts, m_playouts, m_nodes, nworkers,
                      tpc, moves, nstate, visits, value_sum, virtual_loss,
                      value, evals, expansions, terminal_hits, cancelled>>
       /\ UNCHANGED <<coreVars, cmpVars, resVars, fwdVars, thrVars,
                    callVars>>

\* a worker that leaves as soon as none may start, wherever it is
WorkerExit_mut ==
    \E w \in Workers :
       /\ spc[w] \in { "idle", "visit", "update" }
       /\ ~MayStart
       /\ spc' = [spc EXCEPT ![w] = "exited"]
       /\ UNCHANGED <<running, m_maxplayouts, m_playouts, m_nodes, nworkers,
                      tpc, moves, nstate, visits, value_sum, virtual_loss,
                      stack, value, evals, expansions, terminal_hits,
                      cancelled>>
       /\ UNCHANGED <<coreVars, cmpVars, resVars, fwdVars, thrVars,
                    callVars>>

\* a worker, between simulations, finds that none may start and exits
WorkerExit ==
    \E w \in Workers :
       /\ spc[w] = "idle"
       /\ ~MayStart
       /\ spc' = [spc EXCEPT ![w] = "exited"]
       /\ UNCHANGED <<running, m_maxplayouts, m_playouts, m_nodes, nworkers,
                      tpc, moves, nstate, visits, value_sum, virtual_loss,
                      stack, value, evals, expansions, terminal_hits,
                      cancelled>>
       /\ UNCHANGED <<coreVars, cmpVars, resVars, fwdVars, thrVars,
                    callVars>>

\* play_simulation step 1: the node is UNEXPANDED and this worker wins the
\* CAS to EXPANDING.  A worker that finds the node EXPANDING has lost: it
\* has no step until the state has changed.
WinExpansion ==
    \E w \in Workers :
       /\ spc[w] = "visit"
       /\ CasWins(Top(w))
       /\ nstate' = [nstate EXCEPT ![Top(w)] = "EXPANDING"]
       /\ spc' = [spc EXCEPT ![w] = "expand"]
       /\ UNCHANGED <<running, m_maxplayouts, m_playouts, m_nodes, nworkers,
                      tpc, moves, visits, value_sum, virtual_loss, stack,
                      value, evals, expansions, terminal_hits, cancelled>>
       /\ UNCHANGED <<coreVars, cmpVars, resVars, fwdVars, thrVars,
                    callVars>>

\* expand: a position without legal moves becomes TERMINAL with the value of
\* the end of the game; any other is evaluated, gets its children with
\* visits = 0 and value_sum = 0, and becomes EXPANDED
Expand ==
    \E w \in Workers :
       /\ spc[w] = "expand"
       /\ LET n == Top(w)
          IN /\ expansions' = SetOn([expansions EXCEPT ![n] = @ + 1],
                                     Children(n) \ DOMAIN expansions, 0)
             /\ IF LegalMoves(n) = 0
                THEN /\ nstate' = [nstate EXCEPT ![n] = "TERMINAL"]
                     /\ value' = [value EXCEPT ![w] = TerminalValue(n)]
                     /\ terminal_hits' = terminal_hits + 1
                     /\ UNCHANGED <<evals, m_nodes, visits, value_sum,
                                    virtual_loss>>
                ELSE /\ value' = [value EXCEPT
                                     ![w] = from_eval(NetEval(n)).m_eval]
                     /\ evals' = evals + 1
                     /\ m_nodes' = m_nodes + Cardinality(Children(n))
                     /\ nstate' = [SetOn(nstate, Children(n), "UNEXPANDED")
                                     EXCEPT ![n] = "EXPANDED"]
                     /\ visits' = SetOn(visits, Children(n), 0)
                     /\ value_sum' = SetOn(value_sum, Children(n), 0)
                     /\ virtual_loss' = SetOn(virtual_loss, Children(n), 0)
                     /\ UNCHANGED terminal_hits
       /\ spc' = [spc EXCEPT ![w] = "update"]
       /\ UNCHANGED <<running, m_maxplayouts, m_playouts, nworkers, tpc,
                      moves, stack, cancelled>>
       /\ UNCHANGED <<coreVars, cmpVars, resVars, fwdVars, thrVars,
                    callVars>>

\* play_simulation step 2: the node is TERMINAL, its cached value is returned
HitTerminal ==
    \E w \in Workers :
       /\ spc[w] = "visit"
       /\ nstate[Top(w)] = "TERMINAL"
       /\ value' = [value EXCEPT ![w] = TerminalValue(Top(w))]
       /\ terminal_hits' = terminal_hits + 1
       /\ spc' = [spc EXCEPT ![w] = "update"]
       /\ UNCHANGED <<running, m_maxplayouts, m_playouts, m_nodes, nworkers,
                      tpc, moves, nstate, visits, value_sum, virtual_loss,
                      stack, evals, expansions, cancelled>>
       /\ UNCHANGED <<coreVars, cmpVars, resVars, fwdVars, thrVars,
                    callVars>>

\* play_simulation step 3: the node is EXPANDED; a child is selected, gets a
\* virtual loss, and play_simulation recurses into it.  Which child has the
\* largest Q + U is left open here: any child may be the one.
SelectChild ==
    \E w \in Workers :
       /\ spc[w] = "visit"
       /\ nstate[Top(w)] = "EXPANDED"
       /\ \E c \in Children(Top(w)) :
             /\ virtual_loss' = [virtual_loss EXCEPT ![c] = @ + 1]
             /\ stack' = [stack EXCEPT ![w] = Append(@, c)]
       /\ UNCHANGED <<running, m_maxplayouts, m_playouts, m_nodes, nworkers,
                      tpc, moves, nstate, visits, value_sum, spc, value,
                      evals, expansions, terminal_hits, cancelled>>
       /\ UNCHANGED <<coreVars, cmpVars, resVars, fwdVars, thrVars,
                    callVars>>

\* UpdateChild with an update that adds the value and forgets the visit
UpdateChild_mut ==
    \E w \in Workers :
       /\ spc[w] = "update"
       /\ Len(stack[w]) > 1
       /\ LET n == Top(w)
          IN /\ value_sum' = [value_sum EXCEPT ![n] = @ + value[w]]
             /\ virtual_loss' = [virtual_loss EXCEPT ![n] = @ - 1]
       /\ value' = [value EXCEPT ![w] = EvalUnit - @]
       /\ stack' = [stack EXCEPT ![w] = SubSeq(@, 1, Len(@) - 1)]
       /\ UNCHANGED <<running, m_maxplayouts, m_playouts, m_nodes, nworkers,
                      tpc, moves, nstate, visits, spc, evals, expansions,
                      terminal_hits, cancelled>>
       /\ UNCHANGED <<coreVars, cmpVars, resVars, fwdVars, thrVars,
                    callVars>>

\* play_simulation step 4 below the root: update(value) on the node, return
\* to the parent, which removes the virtual loss and sees the value from the
\* other side
UpdateChild ==
    \E w \in Workers :
       /\ spc[w] = "update"
       /\ Len(stack[w]) > 1
       /\ LET n == Top(w)
          IN /\ visits' = [visits EXCEPT ![n] = @ + 1]
             /\ value_sum' = [value_sum EXCEPT ![n] = @ + value[w]]
             /\ virtual_loss' = [virtual_loss EXCEPT ![n] = @ - 1]
       /\ value' = [value EXCEPT ![w] = EvalUnit - @]
       /\ stack' = [stack EXCEPT ![w] = SubSeq(@, 1, Len(@) - 1)]
       /\ UNCHANGED <<running, m_maxplayouts, m_playouts, m_nodes, nworkers,
                      tpc, moves, nstate, spc, evals, expansions,
                      terminal_hits, cancelled>>
       /\ UNCHANGED <<coreVars, cmpVars, resVars, fwdVars, thrVars,
                    callVars>>

\* UpdateRoot without the update of the root: only the playouts are counted
UpdateRoot_mut ==
    \E w \in Workers :
       /\ spc[w] = "update"
       /\ Len(stack[w]) = 1
       /\ m_playouts' = m_playouts + 1
       /\ stack' = [stack EXCEPT ![w] = << >>]
       /\ value' = [value EXCEPT ![w] = 0]
       /\ spc' = [spc EXCEPT ![w] = "idle"]
       /\ UNCHANGED <<running, m_maxplayouts, m_nodes, nworkers, tpc, moves,
                      nstate, visits, value_sum, virtual_loss, evals,
                      expansions, terminal_hits, cancelled>>
       /\ UNCHANGED <<coreVars, cmpVars, resVars, fwdVars, thrVars,
                    callVars>>

\* play_simulation steps 4 and 5 at the root: update(value) on the root and
\* increment_playouts(); the simulation is over
UpdateRoot ==
    \E w \in Workers :
       /\ spc[w] = "update"
       /\ Len(stack[w]) = 1
       /\ visits' = [visits EXCEPT ![Root] = @ + 1]
       /\ value_sum' = [value_sum EXCEPT ![Root] = @ + value[w]]
       /\ m_playouts' = m_playouts + 1
       /\ stack' = [stack EXCEPT ![w] = << >>]
       /\ value' = [value EXCEPT ![w] = 0]
       /\ spc' = [spc EXCEPT ![w] = "idle"]
       /\ UNCHANGED <<running, m_maxplayouts, m_nodes, nworkers, tpc, moves,
                      nstate, virtual_loss, evals, expansions, terminal_hits,
                      cancelled>>
       /\ UNCHANGED <<coreVars, cmpVars, resVars, fwdVars, thrVars,
                    callVars>>

\* the driver clears running: the time is up or a cancel has arrived
Cancel ==
    /\ tpc = "running"
    /\ running
    /\ running' = FALSE
    /\ cancelled' = TRUE
    /\ UNCHANGED <<m_maxplayouts, m_playouts, m_nodes, nworkers, tpc, moves,
                   nstate, visits, value_sum, virtual_loss, spc, stack, value,
                   evals, expansions, terminal_hits>>
    /\ UNCHANGED <<coreVars, cmpVars, resVars, fwdVars, thrVars,
                    callVars>>

\* think has waited for all its workers and returns
ThinkReturn ==
    /\ tpc = "running"
    /\ \A w \in Workers : spc[w] \in { "exited", "absent" }
    /\ running' = FALSE
    /\ tpc' = "returned"
    /\ UNCHANGED <<m_maxplayouts, m_playouts, m_nodes, nworkers, moves,
                   nstate, visits, value_sum, virtual_loss, spc, stack, value,
                   evals, expansions, terminal_hits, cancelled>>
    /\ UNCHANGED <<coreVars, cmpVars, resVars, fwdVars, thrVars,
                    callVars>>

\* the steps of the workers
WorkerNext ==
    \/ StartSimulation
    \/ WorkerExit
    \/ WinExpansion
    \/ Expand
    \/ HitTerminal
    \/ SelectChild
    \/ UpdateChild
    \/ UpdateRoot

NextSearch ==
    \/ StartSimulation
    \/ WorkerExit
    \/ WinExpansion
    \/ Expand
    \/ HitTerminal
    \/ SelectChild
    \/ UpdateChild
    \/ UpdateRoot
    \/ Cancel
    \/ ThinkReturn

SpecSearch == InitSearch /\ [][NextSearch]_vars

\* the workers are threads of their own: a worker that can take a step
\* takes one
SpecSearchFair == SpecSearch /\ WF_vars(WorkerNext) /\ WF_vars(ThinkReturn)

(***************************************************************************)
(* compare_net_outputs called by several threads on vectors with           *)
(* mismatching elements.  num_expansions is a static std::atomic<int64_t>: *)
(* each load, each store and the subtraction is one atomic step, and       *)
(* nothing joins a load to the store or the subtraction that follows it.   *)
(***************************************************************************)
Threads == 1..2

\* the mismatching elements a call may find in its vectors
MaxThreadMismatch == 2

\* values of the counter that earlier calls leave behind
CreditStarts ==
    { min_correct_expansions - 1, min_correct_expansions,
      2 * min_correct_expansions, 3 * min_correct_expansions }

InitCredit ==
    /\ WinoOff /\ NetOff
    /\ epc = "off"
    /\ build = [long_bits |-> 64, wide_shift |-> "none"]
    /\ planes = << >>
    /\ input_data = EmptyVec
    /\ out = NoOutputs /\ cpu_out = NoOutputs /\ retry_out = NoOutputs
    /\ num_expansions \in CreditStarts
    /\ fatal = FALSE /\ almost_equal = TRUE
    /\ entry_expansions = num_expansions
    /\ CmpOff /\ ResOff /\ FwdOff /\ SearchOff /\ CallOff
    /\ xpc = [t \in Threads |-> "enter"]
    /\ xreg = [t \in Threads |-> 0]
    /\ xleft \in [Threads -> 0..MaxThreadMismatch]
    /\ xfatal = [t \in Threads |-> FALSE]

\* line 912, right-hand side: num_expansions + 1 loads the counter
CreditLoad ==
    \E t \in Threads :
       /\ xpc[t] = "enter"
       /\ xreg' = [xreg EXCEPT ![t] = num_expansions]
       /\ xpc' = [xpc EXCEPT ![t] = "store"]
       /\ UNCHANGED <<num_expansions, xleft, xfatal>>
       /\ UNCHANGED <<epc, build, planes, input_data, out, cpu_out, retry_out,
                      fatal, almost_equal, entry_expansions>>
       /\ UNCHANGED <<winoVars, netVars, cmpVars, resVars, fwdVars,
                      searchVars, callVars>>

\* line 912, assignment: the capped value is stored
CreditStore ==
    \E t \in Threads :
       /\ xpc[t] = "store"
       /\ num_expansions' = BumpExpansions(xreg[t])
       /\ xpc' = [xpc EXCEPT ![t] = "loop"]
       /\ UNCHANGED <<xreg, xleft, xfatal>>
       /\ UNCHANGED <<epc, build, planes, input_data, out, cpu_out, retry_out,
                      fatal, almost_equal, entry_expansions>>
       /\ UNCHANGED <<winoVars, netVars, cmpVars, resVars, fwdVars,
                      searchVars, callVars>>

\* lines 926-928: the next mismatching element; the counter is loaded and
\* compared, and fatal is set when the credit is used up
CreditTest ==
    \E t \in Threads :
       /\ xpc[t] = "loop"
       /\ xleft[t] > 0
       /\ IF CreditExhausted(num_expansions)
          THEN /\ xfatal' = [xfatal EXCEPT ![t] = TRUE]
               /\ xleft' = [xleft EXCEPT ![t] = @ - 1]
               /\ UNCHANGED xpc
          ELSE /\ xpc' = [xpc EXCEPT ![t] = "subtract"]
               /\ UNCHANGED <<xfatal, xleft>>
       /\ UNCHANGED <<num_expansions, xreg>>
       /\ UNCHANGED <<epc, build, planes, input_data, out, cpu_out, retry_out,
                      fatal, almost_equal, entry_expansions>>
       /\ UNCHANGED <<winoVars, netVars, cmpVars, resVars, fwdVars,
                      searchVars, callVars>>

\* line 930: num_expansions -= min_correct_expansions
CreditSubtract ==
    \E t \in Threads :
       /\ xpc[t] = "subtract"
       /\ num_expansions' = num_expansions - min_correct_expansions
       /\ xleft' = [xleft EXCEPT ![t] = @ - 1]
       /\ xpc' = [xpc EXCEPT ![t] = "loop"]
       /\ UNCHANGED <<xreg, xfatal>>
       /\ UNCHANGED <<epc, build, planes, input_data, out, cpu_out, retry_out,
                      fatal, almost_equal, entry_expansions>>
       /\ UNCHANGED <<winoVars, netVars, cmpVars, resVars, fwdVars,
                      searchVars, callVars>>

\* line 934: the loop is over and the call returns
CreditReturn ==
    \E t \in Threads :
       /\ xpc[t] = "loop"
       /\ xleft[t] = 0
       /\ xpc' = [xpc EXCEPT ![t] = "done"]
       /\ UNCHANGED <<num_expansions, xreg, xleft, xfatal>>
       /\ UNCHANGED <<epc, build, planes, input_data, out, cpu_out, retry_out,
                      fatal, almost_equal, entry_expansions>>
       /\ UNCHANGED <<winoVars, netVars, cmpVars, resVars, fwdVars,
                      searchVars, callVars>>

NextCredit ==
    \/ CreditLoad
    \/ CreditStore
    \/ CreditTest
    \/ CreditSubtract
    \/ CreditReturn

SpecCredit == InitCredit /\ [][NextCredit]_vars

(***************************************************************************)
(* NetworkOld::initialize called again by the first thread, and called by  *)
(* a second thread while the first is inside it.  initialized is a plain   *)
(* static bool that is set before the weights are loaded.  The body of the *)
(* second thread, when it runs one, runs after the first has returned.     *)
(***************************************************************************)
MaxCalls == 2

InitCalls ==
    /\ WinoOff /\ NetInit /\ EvalOff
    /\ CmpOff /\ ResOff /\ FwdOff /\ SearchOff /\ ThrOff
    /\ opc = "start"
    /\ ncalls = 1

\* the second thread, line 361: if (initialized) return;
OtherTest ==
    /\ opc = "start"
    /\ npc \notin { "exited", "crashed" }
    /\ opc' = IF initialized THEN "returned" ELSE "entered"
    /\ UNCHANGED <<netVars, ncalls>>
    /\ UNCHANGED <<winoVars, evalVars, cmpVars, resVars, fwdVars, searchVars,
                   thrVars>>

\* the second thread found initialized false before the first thread set
\* it, and goes on when the first has returned: initialized = true, the
\* assert of line 367, which stops a build with assertions since
\* m_format_version is no longer 0, and load_network once more
OtherBody ==
    /\ opc = "entered"
    /\ npc = "done"
    /\ initialized' = TRUE
    /\ \/ /\ m_format_version # U64Zero
          /\ opc' = "aborted"
          /\ UNCHANGED <<npc, ld, ret>>
       \/ /\ opc' = "body"
          /\ npc' = "version"
          /\ ld' = LdInit
          /\ ret' = << >>
    /\ UNCHANGED <<file, m_format_version, net, ub, ncalls>>
    /\ UNCHANGED <<winoVars, evalVars, cmpVars, resVars, fwdVars, searchVars,
                   thrVars>>

\* the second thread returns from the body it ran
OtherReturn ==
    /\ opc = "body"
    /\ npc = "done"
    /\ opc' = "reloaded"
    /\ UNCHANGED <<netVars, ncalls>>
    /\ UNCHANGED <<winoVars, evalVars, cmpVars, resVars, fwdVars, searchVars,
                   thrVars>>

\* the first thread has returned and calls initialize again
CallAgain ==
    /\ npc = "done"
    /\ opc # "body"
    /\ ncalls < MaxCalls
    /\ npc' = "start"
    /\ ncalls' = ncalls + 1
    /\ UNCHANGED <<file, initialized, m_format_version, net, ld, ret, ub, opc>>
    /\ UNCHANGED <<winoVars, evalVars, cmpVars, resVars, fwdVars, searchVars,
                   thrVars>>

NextCalls ==
    \/ InitializeEnter
    \/ LoadVersion
    \/ LoadCount
    \/ LoadParseLine
    \/ InitAfterLoad
    \/ InitTransform
    \/ InitFoldTower
    \/ InitCheck
    \/ InitFoldHeads
    \/ OtherTest
    \/ OtherBody
    \/ OtherReturn
    \/ CallAgain

SpecCalls == InitCalls /\ [][NextCalls]_vars

(***************************************************************************)
(* C1: the Winograd pipeline writes, at every output channel and square,   *)
(* the direct zero-padded 3x3 convolution of the input with the filter.    *)
(***************************************************************************)
InAt(in, c, y, x) ==
    IF y >= 0 /\ x >= 0 /\ y < 8 /\ x < 8 THEN in[c*64 + y*8 + x] ELSE 0

DirectConv(ff, in, nch, k, y, x) ==
    SumTo([t \in 0..(nch * 9 - 1) |->
             LET c == t \div 9
                 i == (t % 9) \div 3
                 j == t % 3
             IN ff[k*nch*9 + c*9 + i*3 + j] * InAt(in, c, y + i - 1, x + j - 1)],
          nch * 9)

C1_WinogradEqualsDirect ==
    wpc = "convolved" =>
        /\ DOMAIN Y = 0..(outputs * 64 - 1)
        /\ \A k \in 0..(outputs - 1) : \A sq \in 0..63 :
              Y[k*64 + sq] =
                Scale * DirectConv(f, input, channels, k, sq \div 8, sq % 8)

C1_Witness ==
    /\ wpc = "convolved"
    /\ outputs = 2 /\ channels = 2
    /\ \E i \in DOMAIN Y : Y[i] # 0
    /\ \E i \in DOMAIN Y : Y[i] < 0

(***************************************************************************)
(* C8: zeropad_U keeps U's entry at (xi, nu, c, o) for c < C, o < K and    *)
(* every other entry of the 16*K_pad*C_pad result is 0.                    *)
(***************************************************************************)
C8_ZeropadKeepsAndZeroes ==
    wpc = "padded" =>
        /\ DOMAIN Upad = 0..(16 * pad[1] * pad[2] - 1)
        /\ \A xi \in 0..3 : \A nu \in 0..3 :
           \A c \in 0..(pad[2] - 1) : \A o \in 0..(pad[1] - 1) :
              Upad[xi*(4*pad[1]*pad[2]) + nu*(pad[1]*pad[2]) + c*pad[1] + o] =
                 IF c < channels /\ o < outputs
                 THEN U[xi*(4*outputs*channels) + nu*(outputs*channels)
                        + c*outputs + o]
                 ELSE 0

C8_Witness ==
    /\ wpc = "padded"
    /\ pad[1] > outputs /\ pad[2] > channels
    /\ outputs = 2 /\ channels = 2
    /\ \E i \in DOMAIN Upad : Upad[i] # 0

(***************************************************************************)
(* Statements about load_network                                           *)
(***************************************************************************)
\* the integer a line starts with after white space, as a set of at most one
LeadingInteger(line) ==
    LET j == SkipSpaces(line, 1)
        neg == j <= Len(line) /\ line[j] = "-"
        k == IF neg THEN j + 1 ELSE j
        e == DigitsEnd(line, k)
    IN IF e = k THEN {}
       ELSE { IF neg THEN -DigitsValue(line, k, e)
              ELSE DigitsValue(line, k, e) }

HasVersion(line) ==
    \E v \in LeadingInteger(line) : 1 <= v /\ v <= MAX_FORMAT_VERSION

\* load_network has returned (0,0) at the version step, no weight read
RejectedAtVersion ==
    /\ npc \in { "loaded", "exited" }
    /\ ret = << 0, 0 >>
    /\ ld = LdInit
    /\ net = NetEmpty

\* load_network went past the version step with the version of the line
PassedVersion(line) ==
    /\ ld.pos >= 2
    /\ \E v \in LeadingInteger(line) : m_format_version = U64Of(v)

\* C2, as the code has it: the version is taken from the first line of the
\* stream, empty or not.  The load goes past the version step exactly when
\* that line starts with an integer v with 1 <= v <= MAX_FORMAT_VERSION;
\* otherwise it returns (0,0) and no weight has been read.
C2_FirstLineDecides ==
    npc \notin { "off", "start", "version" } =>
        IF Len(file) >= 1 /\ HasVersion(file[1])
        THEN PassedVersion(file[1])
        ELSE RejectedAtVersion

\* C2 witness: a first line of several characters is accepted as version 2
C2_Witness ==
    /\ npc = "count"
    /\ Len(file[1]) > 1
    /\ m_format_version = U64Of(2)

\* C2 as stated: the version is taken from the first non-empty line
C2_FirstNonEmptyLineDecides ==
    npc \notin { "off", "start", "version" } =>
        LET nonempty == { i \in 1..Len(file) : Len(file[i]) > 0 }
            first == CHOOSE i \in nonempty : \A j \in nonempty : i <= j
        IN IF nonempty # {} /\ HasVersion(file[first])
           THEN PassedVersion(file[first])
           ELSE RejectedAtVersion

\* C3 as stated: a file of L lines is accepted only if L - 19 is a
\* non-negative multiple of 8, the residual blocks reported are (L - 19)/8,
\* and every other file is rejected with (0,0)
C3_LineCountRule ==
    npc = "loaded" =>
        \/ ret = << 0, 0 >>
        \/ /\ Len(file) >= 19
           /\ (Len(file) - 19) % 8 = 0
           /\ ret[2] = (Len(file) - 19) \div 8

\* number of white-space separated tokens of a line
NumTokens(line) ==
    Cardinality({ p \in 1..Len(line) :
                    line[p] # " " /\ (p = 1 \/ line[p - 1] = " ") })

\* C4, as the code has it: the channel count load_network reports is the
\* number of white-space separated tokens on line 3 of the file, the line
\* of the input convolution's biases (line 1 is the version line)
C4_ChannelsFromLineThree ==
    (npc = "loaded" /\ ret # << 0, 0 >>) =>
        /\ Len(file) >= 3
        /\ ret[1] = NumTokens(file[3])

\* C4 witness: a file of one residual block is accepted with two channels
C4_Witness ==
    /\ npc = "loaded"
    /\ ret = << 2, 1 >>
    /\ NumTokens(file[2]) # 2

\* C4 as stated: the channel count is the number of tokens on line 2
C4_ChannelsFromLineTwo ==
    (npc = "loaded" /\ ret # << 0, 0 >>) =>
        /\ Len(file) >= 2
        /\ ret[1] = NumTokens(file[2])

\* the weights of the k-th line after the version line, and the number of them
LoadedLine(k) == ParseLine(file[k + 2]).weights

\* the same after the conversion of a bn-variance line
AsStored(k, isvar) ==
    IF isvar
    THEN [i \in DOMAIN LoadedLine(k) |-> Rsd(LoadedLine(k)[i], DefaultEpsilon)]
    ELSE LoadedLine(k)

\* arr starts with the elements of w
StartsWith(arr, w) == \A i \in DOMAIN w : i \in DOMAIN arr /\ arr[i] = w[i]

TowerRoles ==
    << "conv_weights", "conv_biases", "batchnorm_means", "batchnorm_stddivs" >>

HeadRoles ==
    << "conv_pol_w", "conv_pol_b", "bn_pol_w1", "bn_pol_w2",
       IF m_format_version = U64Of(1) THEN "v1_ip_pol_w" ELSE "v2_ip_pol_w",
       IF m_format_version = U64Of(1) THEN "v1_ip_pol_b" ELSE "v2_ip_pol_b",
       "conv_val_w", "conv_val_b", "bn_val_w1", "bn_val_w2",
       "ip1_val_w", "ip1_val_b", "ip2_val_w", "ip2_val_b" >>

\* C5 as stated: in an accepted file with B residual blocks, line k after
\* the version line is stored in tower layer k \div 4 as weights, biases,
\* bn-mean, bn-variance for k < 4*(1+2B), the next 6 lines in the policy
\* head and the next 8 in the value head, in the stated order, and exactly
\* the bn-variance lines are converted to 1/sqrt(w + epsilon)
C5_LinesStoredInOrder ==
    (npc = "loaded" /\ ret # << 0, 0 >> /\ ub = {}) =>
        LET B == ret[2]
            T == 4 * (1 + 2 * B)
        IN \A k \in 0..(Len(file) - 2) :
              IF k < T
              THEN LET fld == TowerRoles[(k % 4) + 1]
                   IN /\ (k \div 4) \in DOMAIN net[fld]
                      /\ net[fld][k \div 4] = AsStored(k, k % 4 = 3)
              ELSE IF k - T <= 13
              THEN LET fld == HeadRoles[k - T + 1]
                       w == AsStored(k, k - T \in { 3, 9 })
                   IN IF fld \in FixedArrays THEN StartsWith(net[fld], w)
                      ELSE net[fld] = w
              ELSE TRUE

(***************************************************************************)
(* Statements about initialize                                             *)
(***************************************************************************)
\* first line after the version line that belongs to the heads
HeadBase == 4 * (1 + 2 * ret[2])

\* element i of a head line read into a fixed array: 0 where the line ends
LoadedOrZero(k, i) ==
    IF i \in DOMAIN LoadedLine(k) THEN LoadedLine(k)[i] ELSE 0

\* the tower biases are 0 and the tower means are the loaded mean minus the
\* loaded bias
C6_TowerFolded ==
    /\ \A i \in DOMAIN net.conv_biases : \A j \in DOMAIN net.conv_biases[i] :
          net.conv_biases[i][j] = 0
    /\ \A i \in DOMAIN net.batchnorm_means :
       \A j \in DOMAIN net.batchnorm_means[i] :
          /\ j \in DOMAIN LoadedLine(4 * i + 1)
          /\ j \in DOMAIN LoadedLine(4 * i + 2)
          /\ net.batchnorm_means[i][j] =
                LoadedLine(4 * i + 2)[j] - LoadedLine(4 * i + 1)[j]

\* the same for the policy head and the value head
C6_HeadsFolded ==
    /\ \A i \in DOMAIN net.conv_pol_b : net.conv_pol_b[i] = 0
    /\ \A i \in DOMAIN net.conv_val_b : net.conv_val_b[i] = 0
    /\ \A i \in DOMAIN net.bn_pol_w1 :
          net.bn_pol_w1[i] =
             LoadedOrZero(HeadBase + 2, i) - LoadedOrZero(HeadBase + 1, i)
    /\ \A i \in DOMAIN net.bn_val_w1 :
          net.bn_val_w1[i] =
             LoadedOrZero(HeadBase + 8, i) - LoadedOrZero(HeadBase + 7, i)

\* the arrays the fold does not name are as loaded
C6_OthersKept ==
    /\ \A i \in DOMAIN net.batchnorm_stddivs :
          net.batchnorm_stddivs[i] = AsStored(4 * i + 3, TRUE)
    /\ net.conv_pol_w = LoadedLine(HeadBase)
    /\ net.conv_val_w = LoadedLine(HeadBase + 6)
    /\ \A j \in { 3, 4, 5, 9, 10, 11, 12, 13 } :
          StartsWith(net[HeadRoles[j + 1]],
                     AsStored(HeadBase + j, j \in { 3, 9 }))

\* C6 as stated: after initialize completes every tower bias is 0 and every
\* tower mean is the loaded mean minus the loaded bias, the same holds for
\* the two heads, and the fold changes no other weight array
C6_BiasesFolded ==
    (npc = "done" /\ ub = {}) =>
        C6_TowerFolded /\ C6_HeadsFolded /\ C6_OthersKept

\* number of floats on head line j of the file (0 when the file has no such
\* line): 1 and 7 are the conv biases, 2 and 8 the bn means
HeadCount(j) ==
    IF ret[2] >= 0 /\ HeadBase + j + 2 <= Len(file)
    THEN VecLen(LoadedLine(HeadBase + j))
    ELSE 0

\* C7, as the code has it: initialize fails with the malformed-weights error
\* exactly when the number of policy-head conv biases read from the file
\* differs from NUM_POLICY_INPUT_PLANES, the fixed size of the array of
\* policy-head means, or the number of value-head conv biases read differs
\* from NUM_VALUE_INPUT_PLANES; the numbers of means read play no part
C7_BiasCountsAgainstArraySizes ==
    LET malformed == \/ HeadCount(1) # NUM_POLICY_INPUT_PLANES
                     \/ HeadCount(7) # NUM_VALUE_INPUT_PLANES
    IN /\ npc = "thrown" => malformed
       /\ npc \in { "foldheads", "done" } => ~malformed

\* C7 witness: the error is raised without undefined behaviour for a file
\* whose head bias and mean counts agree pairwise
C7_Witness ==
    /\ npc = "thrown"
    /\ ub = {}
    /\ HeadCount(1) = HeadCount(2)
    /\ HeadCount(7) = HeadCount(8)

\* C7 as stated: the error is raised exactly when the number of means read
\* differs from the number of conv biases read, for either head
C7_BiasCountsAgainstMeanCounts ==
    LET differ == \/ HeadCount(2) # HeadCount(1)
                  \/ HeadCount(8) # HeadCount(7)
    IN /\ npc = "thrown" => differ
       /\ npc \in { "foldheads", "done" } => ~differ

(***************************************************************************)
(* Statements about get_scored_moves and the self-check                    *)
(***************************************************************************)
\* C9 as stated: the dense buffer has C*64 entries and entry c*64 + i is the
\* value of plane c when bit i of its mask is 1, for every i in 0..63, and
\* 0 otherwise
C9_PlanesMaterialized ==
    epc \in { "forward", "scored" } =>
        /\ DOMAIN input_data = 0..(Len(planes) * 64 - 1)
        /\ \A c \in 0..(Len(planes) - 1) : \A i \in 0..63 :
              input_data[c * 64 + i] =
                 IF i \in planes[c + 1].mask THEN planes[c + 1].value ELSE 0

\* number of elements of data that differ from ref by more than the
\* tolerated relative error
MismatchCount(data, ref) ==
    Cardinality({ idx \in DOMAIN data :
                    ExceedsRelativeError(
                       relative_difference(data[idx], ref[idx])) })

\* a comparison that counts: the counter first goes up by one, capped at
\* 3T, then each of the m mismatches found while the counter is at least T
\* takes T off it, and the others are fatal
CountingCompare(data, ref) ==
    LET n0 == Min(num_expansions + 1, 3 * min_correct_expansions)
        credit == n0 \div min_correct_expansions
        m == MismatchCount(data, ref)
    IN /\ num_expansions' = n0 - min_correct_expansions * Min(m, credit)
       /\ fatal' = (fatal \/ m > credit)

\* two display-only comparisons: the counter goes up twice, capped at 3T
DisplayCompares ==
    /\ num_expansions' = Min(num_expansions + 2, 3 * min_correct_expansions)
    /\ fatal' = fatal

\* C10, as the code has it: the counter starts at T = 500; it goes up by one,
\* capped at 3T = 1500, at every output comparison and not at every call of
\* the evaluator: twice in a self-checked call, four times more when that
\* call found a mismatch, never in a call that skips the self-check.  Each
\* tolerated mismatch takes T off, and a mismatch is fatal exactly when it is
\* found while the counter is below T.
C10_CreditPerComparison ==
    /\ num_expansions = min_correct_expansions
    /\ min_correct_expansions = 500
    /\ [][ /\ epc = "compare_policy" =>
                CountingCompare(out.policy, cpu_out.policy)
           /\ epc = "compare_value" =>
                CountingCompare(out.value, cpu_out.value)
           /\ (epc = "checked" /\ epc' = "retry") => DisplayCompares
           /\ epc = "retry" => DisplayCompares
           /\ epc \notin { "compare_policy", "compare_value", "retry" }
              /\ ~(epc = "checked" /\ epc' = "retry")
              => num_expansions' = num_expansions ]_vars

\* C10 witness: a call entered with a credit of two mismatches has found a
\* third, which is fatal
C10_Witness ==
    /\ epc = "checked"
    /\ fatal
    /\ entry_expansions >= 2 * min_correct_expansions
    /\ num_expansions < min_correct_expansions

\* C10 as stated, for a call that found no mismatch: the call has put the
\* counter up by one, capped at 3T
C10_CreditPerCall ==
    (epc = "scored" /\ almost_equal) =>
        num_expansions =
           Min(entry_expansions + 1, 3 * min_correct_expansions)

\* the counting comparison of the value outputs finds ManyMismatch or more
\* mismatching elements
ManyValueMismatches ==
    /\ VecLen(out.value) = VecLen(cpu_out.value)
    /\ VecLen(out.value) > 0
    /\ MismatchCount(out.value, cpu_out.value) >= ManyMismatch

\* C11: a single counting comparison that finds 10 mismatching elements sets
\* fatal whatever the credit counter was, at most 3T = 1500, before it; once
\* fatal is set the evaluation does not return a result, it ends with the
\* self-check error
C11_TenMismatchesFatal ==
    /\ [](num_expansions <= 3 * min_correct_expansions)
    /\ [](fatal => epc \in { "compare_value", "checked", "retry",
                             "retry_mismatch", "selfcheck_mismatch" })
    /\ [][ /\ (epc = "compare_value" /\ ManyValueMismatches) => fatal'
           /\ (epc = "retry" /\ fatal) =>
                 epc' \in { "retry_mismatch", "selfcheck_mismatch" } ]_vars

\* C11 witness: a call entered with the full credit of 3T found 10 mismatching
\* elements and ended with the self-check error
C11_Witness ==
    /\ epc = "selfcheck_mismatch"
    /\ entry_expansions = 3 * min_correct_expansions
    /\ ManyValueMismatches
    /\ MismatchCount(out.value, cpu_out.value) = 10
    /\ fatal

\* C12 as stated: when the retry output differs from the first accelerator
\* output beyond the tolerance in some element, the evaluation has ended with
\* the retry-mismatch error
C12_RetryMismatchDetected ==
    ( /\ VecLen(retry_out.value) > 0
      /\ MismatchCount(retry_out.policy, out.policy)
           + MismatchCount(retry_out.value, out.value) > 0 )
    => epc = "retry_mismatch"

(***************************************************************************)
(* Statements about SearchResult                                           *)
(***************************************************************************)
\* an evaluation in [0,1]
InUnitInterval(e) == 0 <= e /\ e <= EvalUnit

Clamped(x) == Max(Abs(x), 10)

OppositeSigns(a, b) == a # 0 /\ b # 0 /\ ((a < 0) # (b < 0))

\* C18 as stated: an element is a mismatch exactly when its relative error
\* against the reference, with magnitudes below 0.001 clamped to 0.001, is
\* above 0.1, or the two values are non-zero and of opposite sign
C18_MismatchAsStated ==
    (cpc \in { "mismatch", "equal" } /\ ~IsNaN(cmp_a) /\ ~IsNaN(cmp_b)) =>
       ( cpc = "mismatch" <=>
            \/ OppositeSigns(cmp_a, cmp_b)
            \/ 10 * Abs(Clamped(cmp_a) - Clamped(cmp_b)) > Clamped(cmp_b) )

\* C18, as the code has it: an element is a mismatch exactly when one of the
\* values is NaN, or both magnitudes are above 0.001 and the signs differ, or
\* the difference of the clamped magnitudes is more than 0.1 of the smaller
\* of the two
C18_MismatchRule ==
    cpc \in { "mismatch", "equal" } =>
       ( cpc = "mismatch" <=>
            \/ IsNaN(cmp_a) \/ IsNaN(cmp_b)
            \/ /\ Abs(cmp_a) > 10 /\ Abs(cmp_b) > 10
               /\ OppositeSigns(cmp_a, cmp_b)
            \/ 10 * Abs(Clamped(cmp_a) - Clamped(cmp_b))
                 > Min(Clamped(cmp_a), Clamped(cmp_b)) )

\* C18 witness: 0.0005 against -0.0005, non-zero and of opposite sign, was
\* compared and is no mismatch
C18_Witness ==
    /\ cpc = "equal"
    /\ cmp_a = 5
    /\ cmp_b = -5

(***************************************************************************)
(* Statements about forward_cpu                                            *)
(***************************************************************************)
RECURSIVE BlockOutput(_, _)
\* what the tower holds after the input stage (b = 0) and after residual
\* block b: ReLU(bn2(conv2(ReLU(bn1(conv1(x))))) + x) with x the output of
\* the stage before
BlockOutput(x, b) ==
    IF b = 0 THEN ReLU(Normalized(0, Convolve3(0, x)))
    ELSE LET xin == BlockOutput(x, b - 1)
             first == ReLU(Normalized(2 * b - 1, Convolve3(2 * b - 1, xin)))
             second == Normalized(2 * b, Convolve3(2 * b, first))
         IN ReLU(AddEltwise(xin, second))

\* C19: forward_cpu runs the input convolution and batch-norm+ReLU, then the
\* (tower - 1)/2 residual blocks in file order, each one saving its own input
\* as res, convolving, batch-norm+ReLU, convolving, and batch-norm with res
\* added before the ReLU; both heads read the output of the last block
C19_StagesInOrder ==
    /\ fpc = "loop" =>
          /\ layer % 2 = 1
          /\ conv_out = BlockOutput(fwd_in, (layer - 1) \div 2)
    /\ fpc \in { "conv1", "bn1", "conv2", "bn2" } =>
          res = BlockOutput(fwd_in, (layer - 1) \div 2)
    /\ fpc = "bn1" => conv_out = Convolve3(layer, res)
    /\ fpc = "bn2" =>
          conv_out = Convolve3(layer + 1,
                               ReLU(Normalized(layer, Convolve3(layer, res))))
    /\ fpc = "done" =>
          LET last == BlockOutput(fwd_in, (tower - 1) \div 2)
          IN /\ layer = tower
             /\ conv_out = last
             /\ heads.policy_data =
                   ReLU(Normalized("pol", Convolve1("pol", last)))
             /\ heads.value_data =
                   ReLU(Normalized("val", Convolve1("val", last)))

\* C19 witness: forward_cpu has finished on a tower of two residual blocks
C19_Witness ==
    /\ fpc = "done"
    /\ tower = 5
    /\ conv_out.op = "relu"
    /\ conv_out.in.op = "add"
    /\ conv_out.in.res = BlockOutput(fwd_in, 1)

\* ---------------------------------------------------------------------
\* Statements about the search

\* the nodes of the tree
Nodes == DOMAIN nstate

\* the workers that are inside play_simulation
InFlight == { w \in Workers : spc[w] \in { "visit", "expand", "update" } }

\* the workers that are inside expand on node n
Expanders(n) == { w \in Workers : spc[w] = "expand" /\ Top(w) = n }

\* a worker that lost the CAS on an EXPANDING node takes no step
LosersWait ==
    \A w \in Workers :
       (spc[w] = "visit" /\ nstate[Top(w)] = "EXPANDING")
          => (spc'[w] = spc[w] /\ stack'[w] = stack[w]
              /\ evals' <= evals + 1
              /\ (evals' = evals + 1 =>
                    \E v \in Workers : v # w /\ spc[v] = "expand"))

\* C13: with one or two workers in play_simulation on the shared tree, no
\* node is expanded more than once: expand has run at most once on every
\* node, at most one worker is inside expand on a node and the node is
\* EXPANDING exactly then, the evaluator has been called once per EXPANDED
\* node, and a worker that finds the node EXPANDING waits until the state
\* has changed, without a step and without an evaluator call of its own.
C13_SingleFlightExpansion ==
    /\ [](tpc # "off" =>
            /\ \A n \in Nodes : expansions[n] <= 1
            /\ \A n \in Nodes : Cardinality(Expanders(n)) <= 1
            /\ \A n \in Nodes :
                  (nstate[n] = "EXPANDING") <=> (Expanders(n) # { })
            /\ \A n \in Nodes :
                  (expansions[n] = 1) <=> (nstate[n] \in { "EXPANDED", "TERMINAL" })
            /\ evals = Cardinality({ n \in Nodes : nstate[n] = "EXPANDED" }))
    /\ [][tpc # "off" => LosersWait]_vars

\* two workers are on the same node: one has won the CAS and is inside
\* expand, the other has lost it and waits
C13_Witness ==
    /\ tpc = "running"
    /\ \E w1 \in Workers, w2 \in Workers :
          /\ spc[w1] = "expand"
          /\ spc[w2] = "visit"
          /\ Top(w1) = Top(w2)
          /\ LegalMoves(Top(w1)) > 0

\* the visits of the first k children of node n
RECURSIVE VisitsOfFirst(_, _)
VisitsOfFirst(n, k) ==
    IF k = 0 THEN 0
    ELSE (IF Append(n, k) \in Nodes THEN visits[Append(n, k)] ELSE 0)
         + VisitsOfFirst(n, k - 1)

\* the sum of the visits of the children of node n
ChildVisits(n) == VisitsOfFirst(n, LegalMoves(n))

\* the simulations in flight that have node n on their path: none of them
\* has updated n yet
Passing(n) ==
    { w \in Workers : \E i \in 1..Len(stack[w]) : stack[w][i] = n }

\* C14 as stated: in every state of the search a node's visits is at least
\* the sum of its children's visits, and equals that sum whenever no
\* simulation is in flight.
C14_VisitsAsStated ==
    tpc # "off" =>
       \A n \in Nodes :
          /\ visits[n] >= ChildVisits(n)
          /\ (InFlight = { } => visits[n] = ChildVisits(n))

\* C14: the sum of the children's visits is at most the node's visits plus
\* the number of simulations in flight through the node, hence at most the
\* node's visits when there is one worker; when no simulation is in flight,
\* an EXPANDED node's visits is one more than the sum of its children's
\* visits (the simulation that expanded it has updated it and no child), and
\* a node in any other state has no visited child.
C14_VisitsCoverChildren ==
    tpc # "off" =>
       \A n \in Nodes :
          /\ ChildVisits(n) <= visits[n] + Cardinality(Passing(n))
          /\ (nworkers = 1 => visits[n] >= ChildVisits(n))
          /\ (InFlight = { } =>
                IF nstate[n] = "EXPANDED"
                THEN visits[n] = 1 + ChildVisits(n)
                ELSE ChildVisits(n) = 0)

\* two workers have returned from simulations that went through the root
\* into its children
C14_Witness ==
    /\ tpc = "returned"
    /\ nworkers = 2
    /\ nstate[Root] = "EXPANDED"
    /\ ChildVisits(Root) >= 2
    /\ \E c \in Children(Root) : nstate[c] = "EXPANDED" /\ ChildVisits(c) >= 1

\* a simulation starts in this step
SimulationStarts == \E w \in Workers : spc[w] = "idle" /\ spc'[w] = "visit"

Exited == \A w \in Workers : spc[w] \in { "exited", "absent" }

\* a worker leaves in this step
WorkerLeaves(w) == spc[w] # "exited" /\ spc'[w] = "exited"

\* C16: no worker starts a simulation in a state where running is false; a
\* worker exits only between simulations, with nothing left of its last
\* simulation (empty path, its virtual losses removed); every simulation in
\* flight comes to its end, the update of the root; and once running is
\* false, eventually every worker has exited.
C16_CooperativeCancellation ==
    /\ [][SimulationStarts => running]_vars
    /\ [][\A w \in Workers :
             WorkerLeaves(w) =>
                /\ spc[w] = "idle"
                /\ stack[w] = << >>
                /\ (Cardinality(InFlight) = 0 =>
                       \A n \in Nodes : virtual_loss[n] = 0)]_vars
    /\ \A w \in Workers :
          [](w \in InFlight => <>(spc[w] = "idle" /\ stack[w] = << >>))
    /\ (tpc = "running" /\ ~running) ~> Exited

\* the driver has cleared running while a simulation is two plies deep and
\* about to propagate its value back
C16_Witness ==
    /\ tpc = "running"
    /\ cancelled
    /\ ~running
    /\ m_playouts < m_maxplayouts
    /\ \E w \in Workers : spc[w] = "update" /\ Len(stack[w]) = 3

\* the node has not been expanded yet
Unvisited(n) == nstate[n] \in { "UNEXPANDED", "EXPANDING" }

\* C20 as stated: in every state of the search, for every node, visits = 0,
\* value_sum = 0 and state in {UNEXPANDED, EXPANDING} are equivalent.
C20_EquivalenceAsStated ==
    tpc # "off" =>
       \A n \in Nodes :
          /\ (visits[n] = 0) <=> (value_sum[n] = 0)
          /\ (value_sum[n] = 0) <=> Unvisited(n)

\* C20: a node whose state is UNEXPANDED or EXPANDING has visits = 0; a node
\* with visits = 0 has value_sum = 0; value_sum lies between 0 and visits
\* (it is 0 with visits > 0 when every value backed up was 0, a lost
\* position); and when no simulation is in flight, visits = 0 holds exactly
\* for the UNEXPANDED nodes.
C20_UnvisitedNodes ==
    tpc # "off" =>
       \A n \in Nodes :
          /\ Unvisited(n) => visits[n] = 0
          /\ visits[n] = 0 => value_sum[n] = 0
          /\ 0 <= value_sum[n] /\ value_sum[n] <= visits[n] * EvalUnit
          /\ (InFlight = { } =>
                ((visits[n] = 0) <=> (nstate[n] = "UNEXPANDED")))

\* think has returned and the tree holds a visited node whose value_sum is
\* 0, a visited node whose value_sum is not, and a node never visited
C20_Witness ==
    /\ tpc = "returned"
    /\ \E n \in Nodes : visits[n] > 0 /\ value_sum[n] = 0
    /\ \E n \in Nodes : visits[n] > 0 /\ value_sum[n] > 0
    /\ \E n \in Nodes : visits[n] = 0 /\ nstate[n] = "UNEXPANDED"

\* ---------------------------------------------------------------------
\* Statements about the fixed-capacity head arrays

\* C22: while load_network parses a file, no line is copied into a
\* fixed-capacity head array beyond the capacity of that array: no std::array
\* of the weights has been written past its end.
C22_NoHeadArrayOverflow ==
    npc # "off" => ub \cap FixedArrays = { }

\* ---------------------------------------------------------------------
\* Statements about the credit counter under several threads

\* C21: when several threads run compare_net_outputs, the shared counter
\* num_expansions stays within 0..3*min_correct_expansions (0..1500) in every
\* reachable state.
C21_CreditWithinRange ==
    xpc # << >> =>
       (0 <= num_expansions /\ num_expansions <= 3 * min_correct_expansions)

\* ---------------------------------------------------------------------
\* Statements about repeated and concurrent calls of initialize

\* a body of initialize has run to its end
BodyCompleted ==
    npc = "done" \/ ncalls > 1 \/ opc \in { "body", "reloaded", "aborted" }

\* a call of initialize has returned to its caller
SomeCallReturned == BodyCompleted \/ opc = "returned"

\* C23: whenever a call of initialize has returned to its caller, the weights
\* are completely loaded, transformed and folded (a body of initialize has
\* run to its end), and no step of any call changes a weight array after a
\* call has returned; with repeated calls and with calls of two threads.
C23_InitializeOnce ==
    /\ [](opc # "off" => (SomeCallReturned => BodyCompleted))
    /\ [][(opc # "off" /\ SomeCallReturned) => net' = net]_vars

====
